---- MODULE Spec2Model ----
(***************************************************************************)
(* Elastic hashing and funnel hashing (open addressing without            *)
(* reordering): the two fixed-capacity integer sets of elastic_hash.go    *)
(* and funnel_hash.go, their constructors, slot hashes and the            *)
(* Insert / Contains / Remove probe algorithms.                           *)
(***************************************************************************)
EXTENDS Integers, Sequences, FiniteSets, TLC

(***************************************************************************)
(* Slot markers.                                                           *)
(***************************************************************************)
EMPTY == -1
TOMBSTONE == -2

(***************************************************************************)
(* Unsigned machine words.  A word of nb bytes is the tuple of its bytes, *)
(* least significant first (index 1).  TLC's integers are 32-bit, so the  *)
(* 64-bit and 32-bit wraparound arithmetic of the hash functions is done  *)
(* on bytes.                                                               *)
(***************************************************************************)
Pow2(n) == 2 ^ n

\* the tuple <<f[1], ..., f[n]>> for n = 4 or n = 8, every element evaluated
AsTuple(f, n) ==
    IF n = 4 THEN <<f[1], f[2], f[3], f[4]>>
    ELSE <<f[1], f[2], f[3], f[4], f[5], f[6], f[7], f[8]>>

\* uint64(n) / uint32(n) of a non-negative int n < 2^31
ToWord(n, nb) ==
    AsTuple([i \in 1..nb |-> IF i <= 4 THEN (n \div Pow2(8 * (i - 1))) % 256 ELSE 0], nb)

\* a literal written as its hexadecimal digits, most significant first
HexWord(digits) ==
    AsTuple([i \in 1..(Len(digits) \div 2) |->
                16 * digits[Len(digits) - 2 * i + 1] + digits[Len(digits) - 2 * i + 2]],
            Len(digits) \div 2)

\* bit i (0 = least significant) of word x
Bit(x, i) == IF i \div 8 + 1 <= Len(x) THEN (x[i \div 8 + 1] \div Pow2(i % 8)) % 2 ELSE 0

RECURSIVE SumTo(_, _)
SumTo(f, n) == IF n < 0 THEN 0 ELSE f[n] + SumTo(f, n - 1)

\* the word whose bit i is bitOf[i]
FromBits(bitOf, nb) ==
    AsTuple([i \in 1..nb |->
                bitOf[8 * i - 8] + 2 * bitOf[8 * i - 7] + 4 * bitOf[8 * i - 6]
                + 8 * bitOf[8 * i - 5] + 16 * bitOf[8 * i - 4] + 32 * bitOf[8 * i - 3]
                + 64 * bitOf[8 * i - 2] + 128 * bitOf[8 * i - 1]], nb)

\* x ^ y
WordXor(x, y) ==
    FromBits([i \in 0..(8 * Len(x) - 1) |-> (Bit(x, i) + Bit(y, i)) % 2], Len(x))

\* x >> n
WordShr(x, n) ==
    FromBits([i \in 0..(8 * Len(x) - 1) |-> Bit(x, i + n)], Len(x))

\* carry out of the low k bytes of x + y
RECURSIVE AddCarry(_, _, _)
AddCarry(x, y, k) ==
    IF k = 0 THEN 0 ELSE (x[k] + y[k] + AddCarry(x, y, k - 1)) \div 256

\* x + y, wrapping around at the word size
WordAdd(x, y) ==
    AsTuple([i \in 1..Len(x) |-> (x[i] + y[i] + AddCarry(x, y, i - 1)) % 256], Len(x))

\* column k (1-based) of the schoolbook product, with the carry of the columns below
RECURSIVE MulColumn(_, _, _)
MulColumn(x, y, k) ==
    IF k = 0 THEN 0
    ELSE SumTo([i \in 0..(k - 1) |-> x[i + 1] * y[k - i]], k - 1)
         + MulColumn(x, y, k - 1) \div 256

\* x * y, wrapping around at the word size
WordMul(x, y) == AsTuple([k \in 1..Len(x) |-> MulColumn(x, y, k) % 256], Len(x))

\* x % m as an int, for a modulus 1 <= m < 2^20
RECURSIVE WordModFrom(_, _, _)
WordModFrom(x, m, k) ==
    IF k > Len(x) THEN 0
    ELSE (256 * WordModFrom(x, m, k + 1) + x[k]) % m

\* a reduction that also returns m itself
WordModInclusive(x, m) == WordModFrom(x, m + 1, 1)

\* int(x % m) for a word x and 0 < m < 2^23
WordMod(x, m) == WordModFrom(x, m, 1)

\* a & b on non-negative ints
RECURSIVE BitAnd(_, _)
BitAnd(a, b) ==
    IF a = 0 \/ b = 0 THEN 0
    ELSE (a % 2) * (b % 2) + 2 * BitAnd(a \div 2, b \div 2)

\* x << n
WordShl(x, n) ==
    FromBits([i \in 0..(8 * Len(x) - 1) |-> IF i >= n THEN Bit(x, i - n) ELSE 0], Len(x))

\* x | y
WordOr(x, y) ==
    FromBits([i \in 0..(8 * Len(x) - 1) |->
                 IF Bit(x, i) + Bit(y, i) > 0 THEN 1 ELSE 0], Len(x))

(***************************************************************************)
(* Elastic table: slot hash.                                               *)
(***************************************************************************)
\* 0x9E3779B97F4A7C15
GoldenGamma == HexWord(<<9, 14, 3, 7, 7, 9, 11, 9, 7, 15, 4, 10, 7, 12, 1, 5>>)
\* 0xBF58476D1CE4E5B9
SplitMixMul1 == HexWord(<<11, 15, 5, 8, 4, 7, 6, 13, 1, 12, 14, 4, 14, 5, 11, 9>>)
\* 0x94D049BB133111EB
SplitMixMul2 == HexWord(<<9, 4, 13, 0, 4, 9, 11, 11, 1, 3, 3, 1, 1, 1, 14, 11>>)

\* x ^ (x >> n)
XorShift(x, n) == WordXor(x, WordShr(x, n))

\* (x ^ (x >> n)) * c
XorShiftMul(x, n, c) == WordMul(XorShift(x, n), c)

\* the 64-bit value x of hashFunc just before the reduction modulo mod
ElasticMix(key, level, attempt) ==
    XorShift(
        XorShiftMul(
            XorShiftMul(
                WordAdd(WordXor(ToWord(key, 8),
                                WordOr(WordShl(ToWord(level, 8), 33), ToWord(attempt, 8))),
                        GoldenGamma),
                30, SplitMixMul1),
            27, SplitMixMul2),
        31)

(***************************************************************************)
(* Funnel table: 32-bit mix of the key.                                    *)
(***************************************************************************)
\* 0x9e3779b1
FunnelMul0 == HexWord(<<9, 14, 3, 7, 7, 9, 11, 1>>)
\* 0x85ebca6b
FunnelMul1 == HexWord(<<8, 5, 14, 11, 12, 10, 6, 11>>)
\* 0xc2b2ae35
FunnelMul2 == HexWord(<<12, 2, 11, 2, 10, 14, 3, 5>>)

\* h of hashFunc just before the reduction to a bucket index
FunnelMix(key) ==
    XorShift(
        XorShiftMul(
            XorShiftMul(WordMul(ToWord(key, 4), FunnelMul0), 15, FunnelMul1),
            13, FunnelMul2),
        16)

\* h0 of Insert and Contains: the start hash of the special array
SpecialMix(key) == WordMul(ToWord(key, 4), FunnelMul0)

\* x & y
WordAnd(x, y) ==
    FromBits([i \in 0..(8 * Len(x) - 1) |-> Bit(x, i) * Bit(y, i)], Len(x))

\* int(x) for a word x < 2^31
WordToInt(x) == SumTo([i \in 0..(Len(x) - 1) |-> x[i + 1] * Pow2(8 * i)], Len(x) - 1)

(***************************************************************************)
(* Bounds of the model: the keys the callers use and the tables they      *)
(* build.  Keys 372788..372791 differ only in their two low bits, which   *)
(* hashFunc xors with the attempt number 0..3, so the four of them probe  *)
(* the same slots of every upper level of an elastic table.               *)
(***************************************************************************)
MaxLowKey == 0
MaxFunnelKey == 6

CollidingKeys == {372788, 372789, 372790, 372791}
ElasticKeys == (0..MaxLowKey) \cup CollidingKeys
\* keys with several distinct probe positions in each level
LowKeys == 0..5
FunnelKeys == 0..MaxFunnelKey

\* <<N, d>>: total size N and empty fraction delta = d/4
ElasticConfigs == {<<13, 0>>, <<13, 3>>, <<17, 3>>}
\* <<N, b, d>>: total size N, bucket size b and empty fraction delta = d/4
FunnelConfigs == {<<8, 1, 1>>, <<16, 2, 0>>, <<20, 4, 2>>}

\* funnel tables with a special array of two slots, and six keys of which two go
\* to the special array of the first: keys 0, 3 and 8 share their bucket at each
\* of its levels, keys 2, 4 and 6 as well
OverflowConfigs == {<<11, 1, 1>>, <<12, 2, 1>>}
OverflowKeys == {0, 2, 3, 4, 6, 8}

\* <<N, b, d>>: an elastic table of (N, d/4) next to a funnel table of (N, b, d/4)
PairConfigs == {<<13, 1, 0>>, <<13, 2, 0>>, <<17, 1, 3>>}

\* int((1 - delta) * float64(N)) for delta = d/4 (exact in float64)
MaxElems(N, d) == ((4 - d) * N) \div 4

\* the slice make([]int, n) filled with EMPTY
EmptySlots(n) == [j \in 1..n |-> EMPTY]

Min(a, b) == IF a < b THEN a ELSE b

\* (m & (m-1)) == 0
IsPowerOfTwo(m) == BitAnd(m, m - 1) = 0

\* the smallest power of two >= n (the loop powerOf2 <<= 1)
RECURSIVE PowerOf2From(_, _)
PowerOf2From(p, n) == IF p < n THEN PowerOf2From(2 * p, n) ELSE p

(***************************************************************************)
(* Elastic table.                                                          *)
(***************************************************************************)
ElasticL == 4
TriedLen == 16
UnrolledAttempts == 4

ErrNil == "nil"
ErrElasticFull == "hash table is full (max load reached)"
ErrNoEmptySlot == "no empty slot found in final level"

\* levels of R slots each, whatever remains of N
RECURSIVE ElasticSegSizesUnclamped(_, _, _, _)
ElasticSegSizesUnclamped(i, n, L, R) ==
    IF i >= L - 1 THEN << IF n < 1 THEN 1 ELSE n >>
    ELSE << R >> \o ElasticSegSizesUnclamped(i + 1, n - R, L, R)

\* sizes of levels i..L-2 when n slots remain, followed by the last level's
RECURSIVE ElasticSegSizes(_, _, _, _)
ElasticSegSizes(i, n, L, R) ==
    IF i >= L - 1 THEN << IF n < 1 THEN 1 ELSE n >>
    ELSE << Min(R, n) >> \o ElasticSegSizes(i + 1, n - Min(R, n), L, R)

NewElasticHashTable(N, d) ==
    LET L == IF ElasticL < 2 THEN 2 ELSE ElasticL
        sizes == ElasticSegSizes(0, N, L, L)
    IN  [ levels   |-> [i \in 1..L |-> EmptySlots(sizes[i])],
          L        |-> L,
          R        |-> L,
          size     |-> 0,
          capacity |-> MaxElems(N, d) ]

\* hashFunc: (key, level, attempt) -> slot index below mod
hashFunc(key, level, attempt, mod) == WordMod(ElasticMix(key, level, attempt), mod)

\* the lengths of the levels of the tables built
ElasticLevelLens ==
    UNION { { ElasticSegSizes(0, c[1], ElasticL, ElasticL)[i] : i \in 1..ElasticL }
            : c \in ElasticConfigs }

MaxLevelLen == CHOOSE m \in ElasticLevelLens : \A n \in ElasticLevelLens : n <= m

\* hashFunc(k, l, a, mod) for mod = 1..n (index mod)
RECURSIVE HashFuncMods(_, _, _, _)
HashFuncMods(k, l, a, n) ==
    IF n = 0 THEN << >>
    ELSE Append(HashFuncMods(k, l, a, n - 1), hashFunc(k, l, a, n))

\* for attempts 0..n-1 (index attempt + 1)
RECURSIVE HashFuncAttempts(_, _, _)
HashFuncAttempts(k, l, n) ==
    IF n = 0 THEN << >>
    ELSE Append(HashFuncAttempts(k, l, n - 1), HashFuncMods(k, l, n - 1, MaxLevelLen))

\* for levels 0..n-1 (index level + 1)
RECURSIVE HashFuncLevels(_, _)
HashFuncLevels(k, n) ==
    IF n = 0 THEN << >>
    ELSE Append(HashFuncLevels(k, n - 1), HashFuncAttempts(k, n - 1, ElasticL))

\* for the keys of K
RECURSIVE HashFuncKeys(_)
HashFuncKeys(K) ==
    IF K = {} THEN << >>
    ELSE LET k == CHOOSE x \in K : TRUE
         IN  (k :> HashFuncLevels(k, ElasticL)) @@ HashFuncKeys(K \ {k})

\* hashFunc is a pure function of its arguments: its values for the keys and
\* level lengths in use, each computed once
HashFuncTable == HashFuncKeys(ElasticKeys \cup LowKeys)

\* ht.hashFunc(key, level, attempt, mod) as the probe loops call it
HashAt(key, level, attempt, mod) == HashFuncTable[key][level + 1][attempt + 1][mod]

\* ht.levels[i][pos]
Slot(ht, i, pos) == ht.levels[i + 1][pos + 1]

\* ht.levels[i][pos] = v
SetSlot(ht, i, pos, v) == [ht EXCEPT !.levels[i + 1][pos + 1] = v]

\* a test that lets Insert write over the key a slot holds
FreeOrHeld(v) == v = EMPTY \/ v = TOMBSTONE \/ v >= 0

\* the test of Insert for a slot it may write
Free(v) == v = EMPTY \/ v = TOMBSTONE

\* tried after the probe of pos
Tried(tried, pos) == IF pos < TriedLen THEN tried \cup {pos} ELSE tried

\* a mask of m in place of m - 1
MaskedByLength(start, offset, m) == BitAnd(start + offset, m)

\* (start + offset) & mask for mask = m - 1
MaskedPos(start, offset, m) == BitAnd(start + offset, m - 1)

\* (start + offset) % m
ModuloPos(start, offset, m) == (start + offset) % m

\* position of the last level probed at the given offset
FinalPos(m, start, offset) ==
    IF IsPowerOfTwo(m) THEN MaskedPos(start, offset, m) ELSE ModuloPos(start, offset, m)

\* hashFunc(key, lastLevel, 0, m)
FinalStart(ht, key) == HashAt(key, ht.L - 1, 0, Len(ht.levels[ht.L]))

\* Contains, last level from the given offset on
RECURSIVE ContainsFinal(_, _, _, _)
ContainsFinal(ht, key, start, offset) ==
    LET m == Len(ht.levels[ht.L])
        pos == FinalPos(m, start, offset)
    IN  IF offset >= m THEN FALSE
        ELSE IF Slot(ht, ht.L - 1, pos) = key THEN TRUE
        ELSE IF Slot(ht, ht.L - 1, pos) = EMPTY THEN FALSE
        ELSE ContainsFinal(ht, key, start, offset + 1)

\* Contains from attempt `attempt` of level i on.  ContainsAt is one attempt, pos
\* being hashFunc(key, i, attempt, m): attempts 0..3 are unrolled and look at the
\* slot only inside their test of tried; the loop from attempt 4 skips a tried
\* position and looks at every other.  An EMPTY slot is the goto nextLevel.
RECURSIVE ContainsProbe(_, _, _, _, _)
RECURSIVE ContainsAt(_, _, _, _, _, _)
ContainsProbe(ht, key, i, attempt, tried) ==
    IF i >= ht.L - 1 THEN ContainsFinal(ht, key, FinalStart(ht, key), 0)
    ELSE IF attempt >= ht.R THEN ContainsProbe(ht, key, i + 1, 0, {})
    ELSE ContainsAt(ht, key, i, attempt, tried,
                    HashAt(key, i, attempt, Len(ht.levels[i + 1])))

\* one attempt of a Contains that gives the level up at a TOMBSTONE as at an EMPTY slot
ContainsAtTombstoneStops(ht, key, i, attempt, tried, pos) ==
    IF pos < TriedLen /\ pos \notin tried
    THEN IF Slot(ht, i, pos) = key THEN TRUE
         ELSE IF Free(Slot(ht, i, pos)) THEN ContainsProbe(ht, key, i + 1, 0, {})
         ELSE ContainsProbe(ht, key, i, attempt + 1, Tried(tried, pos))
    ELSE ContainsProbe(ht, key, i, attempt + 1, tried)

ContainsAt(ht, key, i, attempt, tried, pos) ==
    IF IF attempt < UnrolledAttempts
       THEN pos < TriedLen /\ pos \notin tried
       ELSE ~(pos < TriedLen /\ pos \in tried)
    THEN IF Slot(ht, i, pos) = key THEN TRUE
         ELSE IF Slot(ht, i, pos) = EMPTY THEN ContainsProbe(ht, key, i + 1, 0, {})
         ELSE ContainsProbe(ht, key, i, attempt + 1, Tried(tried, pos))
    ELSE ContainsProbe(ht, key, i, attempt + 1, tried)

ElasticContains(ht, key) == ContainsProbe(ht, key, 0, 0, {})

\* an Insert that writes the key and leaves the counter alone
InsertedKeepsSize(ht, i, pos, key) == [ht |-> SetSlot(ht, i, pos, key), err |-> ErrNil]

\* the table after Insert wrote key to slot pos of level i, and the nil returned
Inserted(ht, i, pos, key) ==
    [ht |-> [SetSlot(ht, i, pos, key) EXCEPT !.size = @ + 1], err |-> ErrNil]

\* Insert, last level from the given offset on
RECURSIVE InsertFinal(_, _, _, _)
InsertFinal(ht, key, start, offset) ==
    LET m == Len(ht.levels[ht.L])
        pos == FinalPos(m, start, offset)
    IN  IF offset >= m THEN [ht |-> ht, err |-> ErrNoEmptySlot]
        ELSE IF Free(Slot(ht, ht.L - 1, pos)) THEN Inserted(ht, ht.L - 1, pos, key)
        ELSE InsertFinal(ht, key, start, offset + 1)

\* Insert from attempt `attempt` of level i on.  InsertAt is one attempt, pos
\* being hashFunc(key, i, attempt, m).
RECURSIVE InsertProbe(_, _, _, _, _)
RECURSIVE InsertAt(_, _, _, _, _, _)
InsertProbe(ht, key, i, attempt, tried) ==
    IF i >= ht.L - 1 THEN InsertFinal(ht, key, FinalStart(ht, key), 0)
    ELSE IF attempt >= ht.R THEN InsertProbe(ht, key, i + 1, 0, {})
    ELSE InsertAt(ht, key, i, attempt, tried,
                  HashAt(key, i, attempt, Len(ht.levels[i + 1])))

InsertAt(ht, key, i, attempt, tried, pos) ==
    IF pos < TriedLen /\ pos \in tried THEN InsertProbe(ht, key, i, attempt + 1, tried)
    ELSE IF Free(Slot(ht, i, pos)) THEN Inserted(ht, i, pos, key)
    ELSE InsertProbe(ht, key, i, attempt + 1, Tried(tried, pos))

\* an Insert that never tests the capacity
ElasticInsertNoCeiling(ht, key) ==
    IF ElasticContains(ht, key) THEN [ht |-> ht, err |-> ErrNil]
    ELSE InsertProbe(ht, key, 0, 0, {})

\* an Insert that probes for a slot without looking for the key first
ElasticInsertNoLookup(ht, key) ==
    IF ht.size >= ht.capacity THEN [ht |-> ht, err |-> ErrElasticFull]
    ELSE InsertProbe(ht, key, 0, 0, {})

\* an Insert that refuses only above the capacity
ElasticInsertAboveCeiling(ht, key) ==
    IF ht.size > ht.capacity THEN [ht |-> ht, err |-> ErrElasticFull]
    ELSE IF ElasticContains(ht, key) THEN [ht |-> ht, err |-> ErrNil]
    ELSE InsertProbe(ht, key, 0, 0, {})

\* the table after Insert(key) and the error returned
\* an Insert that counts the key before it finds the table full
ElasticInsertCountsFirst(ht, key) ==
    IF ht.size >= ht.capacity
    THEN [ht |-> [ht EXCEPT !.size = @ + 1], err |-> ErrElasticFull]
    ELSE IF ElasticContains(ht, key) THEN [ht |-> ht, err |-> ErrNil]
    ELSE InsertProbe(ht, key, 0, 0, {})

ElasticInsert(ht, key) ==
    IF ht.size >= ht.capacity THEN [ht |-> ht, err |-> ErrElasticFull]
    ELSE IF ElasticContains(ht, key) THEN [ht |-> ht, err |-> ErrNil]
    ELSE InsertProbe(ht, key, 0, 0, {})

\* a Remove that empties the slot instead of leaving a tombstone
RemovedToEmpty(ht, i, pos) ==
    [ht |-> [SetSlot(ht, i, pos, EMPTY) EXCEPT !.size = @ - 1], found |-> TRUE]

\* a Remove that writes the tombstone and leaves the counter alone
RemovedKeepsSize(ht, i, pos) == [ht |-> SetSlot(ht, i, pos, TOMBSTONE), found |-> TRUE]

\* a Remove that counts the key out but leaves it in its slot
RemovedKeepsKey(ht, i, pos) == [ht |-> [ht EXCEPT !.size = @ - 1], found |-> TRUE]

\* the table after Remove turned slot pos of level i into a tombstone, and the
\* true returned
Removed(ht, i, pos) ==
    [ht |-> [SetSlot(ht, i, pos, TOMBSTONE) EXCEPT !.size = @ - 1], found |-> TRUE]

\* Remove, last level from the given offset on
RECURSIVE RemoveFinal(_, _, _, _)
RemoveFinal(ht, key, start, offset) ==
    LET m == Len(ht.levels[ht.L])
        pos == FinalPos(m, start, offset)
    IN  IF offset >= m THEN [ht |-> ht, found |-> FALSE]
        ELSE IF Slot(ht, ht.L - 1, pos) = key THEN Removed(ht, ht.L - 1, pos)
        ELSE IF Slot(ht, ht.L - 1, pos) = EMPTY THEN [ht |-> ht, found |-> FALSE]
        ELSE RemoveFinal(ht, key, start, offset + 1)

\* Remove from attempt `attempt` of level i on.  RemoveAt is one attempt, pos
\* being hashFunc(key, i, attempt, m).  An EMPTY slot is the break.
RECURSIVE RemoveProbe(_, _, _, _, _)
RECURSIVE RemoveAt(_, _, _, _, _, _)
RemoveProbe(ht, key, i, attempt, tried) ==
    IF i >= ht.L - 1 THEN RemoveFinal(ht, key, FinalStart(ht, key), 0)
    ELSE IF attempt >= ht.R THEN RemoveProbe(ht, key, i + 1, 0, {})
    ELSE RemoveAt(ht, key, i, attempt, tried,
                  HashAt(key, i, attempt, Len(ht.levels[i + 1])))

RemoveAt(ht, key, i, attempt, tried, pos) ==
    IF pos < TriedLen /\ pos \in tried THEN RemoveProbe(ht, key, i, attempt + 1, tried)
    ELSE IF Slot(ht, i, pos) = key THEN Removed(ht, i, pos)
    ELSE IF Slot(ht, i, pos) = EMPTY THEN RemoveProbe(ht, key, i + 1, 0, {})
    ELSE RemoveProbe(ht, key, i, attempt + 1, Tried(tried, pos))

\* the table after Remove(key) and the value returned
ElasticRemove(ht, key) == RemoveProbe(ht, key, 0, 0, {})

(***************************************************************************)
(* Funnel table.                                                           *)
(***************************************************************************)
ErrFunnelFull == "hash table is full"
ErrSpecialFull == "special array is full - insertion failed"

\* number of levels B: 3, and 4 when delta < 0.1 (delta = d/4)
FunnelB(d) == IF d = 0 THEN 4 ELSE 3

\* the fractions sizes[i] of N as <<numerator, denominator>>: {0.6, 0.25, 0.1} for
\* B = 3 and {0.5, 0.25, 0.15, 0.05} for B = 4.  int(sizes[i] * float64(N)) is
\* the integer quotient below for every N < 2000.
FunnelFractions(B) ==
    IF B = 4 THEN << <<1, 2>>, <<1, 4>>, <<15, 100>>, <<5, 100>> >>
    ELSE << <<6, 10>>, <<1, 4>>, <<1, 10>> >>

\* the quotient a / b of Go's int: truncated toward zero (b # 0)
GoDiv(a, b) ==
    LET abs(x) == IF x < 0 THEN 0 - x ELSE x
    IN  IF (a < 0) = (b < 0) THEN abs(a) \div abs(b) ELSE 0 - (abs(a) \div abs(b))

\* numB without the raise of size_i to b
FunnelNumBucketsNoMinimum(N, b, frac) ==
    LET numB == GoDiv((frac[1] * N) \div frac[2], b)
        powerOf2 == PowerOf2From(1, numB)
    IN  IF powerOf2 <= GoDiv(numB * 5, 4) THEN powerOf2 ELSE numB

\* numB of level i (0-based) for total size N and bucket size b # 0
FunnelNumBuckets(N, b, frac) ==
    LET size0 == (frac[1] * N) \div frac[2]
        size_i == IF size0 < b THEN b ELSE size0
        numB == GoDiv(size_i, b)
        powerOf2 == PowerOf2From(1, numB)
    IN  IF powerOf2 <= GoDiv(numB * 5, 4) THEN powerOf2 ELSE numB

\* the Level value of numB buckets of b slots
NewLevel(numB, b) ==
    [ slots      |-> EmptySlots(numB * b),
      numBuckets |-> numB,
      mask       |-> IF numB > 0 /\ IsPowerOfTwo(numB) THEN numB - 1 ELSE 0 ]

\* len(ht.special) when the levels hold allocated slots
SpecialSize(N, allocated) ==
    LET size0 == IF N - allocated < 1 THEN 1 ELSE N - allocated
        powerOf2 == PowerOf2From(1, size0)
    IN  IF powerOf2 <= (size0 * 5) \div 4 THEN powerOf2 ELSE size0

NewFunnelHashTable(N, b, d) ==
    LET B == FunnelB(d)
        numB == [i \in 1..B |-> FunnelNumBuckets(N, b, FunnelFractions(B)[i])]
        allocated == SumTo([i \in 0..(B - 1) |-> numB[i + 1] * b], B - 1)
    IN  [ levels   |-> [i \in 1..B |-> NewLevel(numB[i], b)],
          special  |-> EmptySlots(SpecialSize(N, allocated)),
          b        |-> b,
          size     |-> 0,
          capacity |-> MaxElems(N, d) ]

\* the numbers of buckets of the levels and the lengths of the special arrays built
FunnelLens ==
    UNION { { NewFunnelHashTable(c[1], c[2], c[3]).levels[i].numBuckets
              : i \in 1..FunnelB(c[3]) }
            \cup { Len(NewFunnelHashTable(c[1], c[2], c[3]).special) }
            : c \in FunnelConfigs \cup PairConfigs \cup OverflowConfigs }

MaxFunnelLen == CHOOSE m \in FunnelLens : \A n \in FunnelLens : n <= m

\* int(h % uint32(m)) for m = 1..n (index m)
RECURSIVE ModsOf(_, _)
ModsOf(h, n) == IF n = 0 THEN << >> ELSE Append(ModsOf(h, n - 1), WordMod(h, n))

\* int(h & mask) for mask = 0..n-1 (index mask + 1)
RECURSIVE MasksOf(_, _)
MasksOf(h, n) ==
    IF n = 0 THEN << >>
    ELSE Append(MasksOf(h, n - 1), WordToInt(WordAnd(h, ToWord(n - 1, 4))))

\* the reductions of the 32-bit word h that the levels and the special array use
Reduced(h) == [mod |-> ModsOf(h, MaxFunnelLen), masked |-> MasksOf(h, MaxFunnelLen)]

\* the hashes of the keys of K: h of hashFunc and h0 of the special array.  Both
\* are pure functions of the key: each is computed once.
RECURSIVE FunnelMixRows(_)
FunnelMixRows(K) ==
    IF K = {} THEN << >>
    ELSE LET k == CHOOSE x \in K : TRUE
         IN  (k :> [h |-> Reduced(FunnelMix(k)), h0 |-> Reduced(SpecialMix(k))])
                 @@ FunnelMixRows(K \ {k})

FunnelMixTable == FunnelMixRows(FunnelKeys \cup ElasticKeys \cup OverflowKeys)

\* hashFunc of the funnel table: (key, level) -> bucket index in that level
FunnelHashFunc(ht, key, levelIdx) ==
    LET level == ht.levels[levelIdx + 1]
    IN  IF level.mask > 0 THEN FunnelMixTable[key].h.masked[level.mask + 1]
        ELSE FunnelMixTable[key].h.mod[level.numBuckets]

\* position of the special array probed at the given offset
SpecialPos(ht, key, offset) ==
    LET m == Len(ht.special)
    IN  IF m > 0 /\ IsPowerOfTwo(m)
        THEN MaskedPos(FunnelMixTable[key].h0.masked[m], offset, m)
        ELSE ModuloPos(FunnelMixTable[key].h0.mod[m], offset, m)

\* ht.levels[i].slots[start + j]
BucketSlot(ht, key, i, j) ==
    ht.levels[i + 1].slots[FunnelHashFunc(ht, key, i) * ht.b + j + 1]

\* the last j .. b-1 with an EMPTY slot in key's bucket of level i, or -1
RECURSIVE LastEmptyInBucket(_, _, _, _)
LastEmptyInBucket(ht, key, i, j) ==
    IF j >= ht.b THEN -1
    ELSE IF LastEmptyInBucket(ht, key, i, j + 1) >= 0
    THEN LastEmptyInBucket(ht, key, i, j + 1)
    ELSE IF BucketSlot(ht, key, i, j) = EMPTY THEN j
    ELSE -1

\* the first j .. b-1 with an EMPTY slot in key's bucket of level i, or -1
RECURSIVE FirstEmptyInBucket(_, _, _, _)
FirstEmptyInBucket(ht, key, i, j) ==
    IF j >= ht.b THEN -1
    ELSE IF BucketSlot(ht, key, i, j) = EMPTY THEN j
    ELSE FirstEmptyInBucket(ht, key, i, j + 1)

\* Insert, special array from the given offset on
RECURSIVE FunnelInsertSpecial(_, _, _)
FunnelInsertSpecial(ht, key, offset) ==
    LET pos == SpecialPos(ht, key, offset)
    IN  IF offset >= Len(ht.special) THEN [ht |-> ht, err |-> ErrSpecialFull]
        ELSE IF ht.special[pos + 1] = key THEN [ht |-> ht, err |-> ErrNil]
        ELSE IF ht.special[pos + 1] = EMPTY
        THEN [ht  |-> [ht EXCEPT !.special[pos + 1] = key, !.size = @ + 1],
              err |-> ErrNil]
        ELSE FunnelInsertSpecial(ht, key, offset + 1)

\* an Insert that takes the first EMPTY slot of the bucket without looking for the key
RECURSIVE FunnelInsertLevelsNoLookup(_, _, _)
FunnelInsertLevelsNoLookup(ht, key, i) ==
    IF i >= Len(ht.levels) THEN FunnelInsertSpecial(ht, key, 0)
    ELSE IF FirstEmptyInBucket(ht, key, i, 0) >= 0
    THEN [ht  |-> [ht EXCEPT
                     !.levels[i + 1].slots[FunnelHashFunc(ht, key, i) * ht.b
                                           + FirstEmptyInBucket(ht, key, i, 0) + 1] = key,
                     !.size = @ + 1],
          err |-> ErrNil]
    ELSE FunnelInsertLevelsNoLookup(ht, key, i + 1)

\* Insert, levels i..B-1 and then the special array
RECURSIVE FunnelInsertLevels(_, _, _)
FunnelInsertLevels(ht, key, i) ==
    IF i >= Len(ht.levels) THEN FunnelInsertSpecial(ht, key, 0)
    ELSE IF \E j \in 0..(ht.b - 1) : BucketSlot(ht, key, i, j) = key
    THEN [ht |-> ht, err |-> ErrNil]
    ELSE IF FirstEmptyInBucket(ht, key, i, 0) >= 0
    THEN [ht  |-> [ht EXCEPT
                     !.levels[i + 1].slots[FunnelHashFunc(ht, key, i) * ht.b
                                           + FirstEmptyInBucket(ht, key, i, 0) + 1] = key,
                     !.size = @ + 1],
          err |-> ErrNil]
    ELSE FunnelInsertLevels(ht, key, i + 1)

\* the table after Insert(key) and the error returned
FunnelInsert(ht, key) ==
    IF ht.size >= ht.capacity THEN [ht |-> ht, err |-> ErrFunnelFull]
    ELSE FunnelInsertLevels(ht, key, 0)

\* Contains, key's bucket of level i from slot j on: TRUE on a match, FALSE at
\* nextLevel (the cases b >= 8 and b >= 4 unroll this same scan)
RECURSIVE FunnelContainsBucket(_, _, _, _)
FunnelContainsBucket(ht, key, i, j) ==
    IF j >= ht.b THEN FALSE
    ELSE IF BucketSlot(ht, key, i, j) = key THEN TRUE
    ELSE IF BucketSlot(ht, key, i, j) = EMPTY THEN FALSE
    ELSE FunnelContainsBucket(ht, key, i, j + 1)

\* a Contains that never looks into the special array
SpecialNotScanned(ht, key, offset) == FALSE

RECURSIVE FunnelContainsSpecial(_, _, _)
FunnelContainsSpecial(ht, key, offset) ==
    LET pos == SpecialPos(ht, key, offset)
    IN  IF offset >= Len(ht.special) THEN FALSE
        ELSE IF ht.special[pos + 1] = key THEN TRUE
        ELSE IF ht.special[pos + 1] = EMPTY THEN FALSE
        ELSE FunnelContainsSpecial(ht, key, offset + 1)

RECURSIVE FunnelContainsLevels(_, _, _)
FunnelContainsLevels(ht, key, i) ==
    IF i >= Len(ht.levels) THEN FunnelContainsSpecial(ht, key, 0)
    ELSE IF FunnelContainsBucket(ht, key, i, 0) THEN TRUE
    ELSE FunnelContainsLevels(ht, key, i + 1)

FunnelContains(ht, key) == FunnelContainsLevels(ht, key, 0)


(***************************************************************************)
(* The slots a call reads, in the order it reads them, as <<level, pos>>.  *)
(***************************************************************************)
\* hashFunc(key, i, attempt, 0) gives no position: x % uint64(0) panics
NoPos == -1

\* the call made these reads and then panicked in hashFunc
Divides(visits) == visits # << >> /\ visits[Len(visits)][2] = NoPos

\* Contains of the elastic table, from attempt `attempt` of level i on, and in the
\* last level from `offset` on
RECURSIVE ContainsVisits(_, _, _, _, _, _)
ContainsVisits(ht, key, i, attempt, tried, offset) ==
    IF Len(ht.levels[i + 1]) = 0 THEN << <<i, NoPos>> >>
    ELSE IF i >= ht.L - 1
    THEN LET pos == FinalPos(Len(ht.levels[ht.L]), FinalStart(ht, key), offset)
         IN  IF offset >= Len(ht.levels[ht.L]) THEN << >>
             ELSE IF Slot(ht, ht.L - 1, pos) \in {key, EMPTY} THEN << <<ht.L - 1, pos>> >>
             ELSE << <<ht.L - 1, pos>> >>
                      \o ContainsVisits(ht, key, i, attempt, tried, offset + 1)
    ELSE IF attempt >= ht.R THEN ContainsVisits(ht, key, i + 1, 0, {}, 0)
    ELSE LET pos == HashAt(key, i, attempt, Len(ht.levels[i + 1]))
         IN  IF IF attempt < UnrolledAttempts THEN pos < TriedLen /\ pos \notin tried
                ELSE ~(pos < TriedLen /\ pos \in tried)
             THEN IF Slot(ht, i, pos) = key THEN << <<i, pos>> >>
                  ELSE IF Slot(ht, i, pos) = EMPTY
                  THEN << <<i, pos>> >> \o ContainsVisits(ht, key, i + 1, 0, {}, 0)
                  ELSE << <<i, pos>> >>
                           \o ContainsVisits(ht, key, i, attempt + 1, Tried(tried, pos), 0)
             ELSE ContainsVisits(ht, key, i, attempt + 1, tried, 0)

\* a Remove that leaves a level at a TOMBSTONE as it does at an EMPTY slot
RECURSIVE RemoveVisitsToTombstone(_, _, _, _, _, _)
RemoveVisitsToTombstone(ht, key, i, attempt, tried, offset) ==
    IF Len(ht.levels[i + 1]) = 0 THEN << <<i, NoPos>> >>
    ELSE IF i >= ht.L - 1
    THEN LET pos == FinalPos(Len(ht.levels[ht.L]), FinalStart(ht, key), offset)
         IN  IF offset >= Len(ht.levels[ht.L]) THEN << >>
             ELSE IF Slot(ht, ht.L - 1, pos) \in {key, EMPTY, TOMBSTONE}
             THEN << <<ht.L - 1, pos>> >>
             ELSE << <<ht.L - 1, pos>> >>
                      \o RemoveVisitsToTombstone(ht, key, i, attempt, tried, offset + 1)
    ELSE IF attempt >= ht.R THEN RemoveVisitsToTombstone(ht, key, i + 1, 0, {}, 0)
    ELSE LET pos == HashAt(key, i, attempt, Len(ht.levels[i + 1]))
         IN  IF pos < TriedLen /\ pos \in tried
             THEN RemoveVisitsToTombstone(ht, key, i, attempt + 1, tried, 0)
             ELSE IF Slot(ht, i, pos) = key THEN << <<i, pos>> >>
             ELSE IF Free(Slot(ht, i, pos))
             THEN << <<i, pos>> >> \o RemoveVisitsToTombstone(ht, key, i + 1, 0, {}, 0)
             ELSE << <<i, pos>> >>
                      \o RemoveVisitsToTombstone(ht, key, i, attempt + 1, Tried(tried, pos), 0)

\* Remove of the elastic table
RECURSIVE RemoveVisits(_, _, _, _, _, _)
RemoveVisits(ht, key, i, attempt, tried, offset) ==
    IF Len(ht.levels[i + 1]) = 0 THEN << <<i, NoPos>> >>
    ELSE IF i >= ht.L - 1
    THEN LET pos == FinalPos(Len(ht.levels[ht.L]), FinalStart(ht, key), offset)
         IN  IF offset >= Len(ht.levels[ht.L]) THEN << >>
             ELSE IF Slot(ht, ht.L - 1, pos) \in {key, EMPTY} THEN << <<ht.L - 1, pos>> >>
             ELSE << <<ht.L - 1, pos>> >>
                      \o RemoveVisits(ht, key, i, attempt, tried, offset + 1)
    ELSE IF attempt >= ht.R THEN RemoveVisits(ht, key, i + 1, 0, {}, 0)
    ELSE LET pos == HashAt(key, i, attempt, Len(ht.levels[i + 1]))
         IN  IF pos < TriedLen /\ pos \in tried
             THEN RemoveVisits(ht, key, i, attempt + 1, tried, 0)
             ELSE IF Slot(ht, i, pos) = key THEN << <<i, pos>> >>
             ELSE IF Slot(ht, i, pos) = EMPTY
             THEN << <<i, pos>> >> \o RemoveVisits(ht, key, i + 1, 0, {}, 0)
             ELSE << <<i, pos>> >>
                      \o RemoveVisits(ht, key, i, attempt + 1, Tried(tried, pos), 0)

\* the probe loops of Insert of the elastic table (after its call of Contains)
RECURSIVE InsertVisits(_, _, _, _, _, _)
InsertVisits(ht, key, i, attempt, tried, offset) ==
    IF Len(ht.levels[i + 1]) = 0 THEN << <<i, NoPos>> >>
    ELSE IF i >= ht.L - 1
    THEN LET pos == FinalPos(Len(ht.levels[ht.L]), FinalStart(ht, key), offset)
         IN  IF offset >= Len(ht.levels[ht.L]) THEN << >>
             ELSE IF Free(Slot(ht, ht.L - 1, pos)) THEN << <<ht.L - 1, pos>> >>
             ELSE << <<ht.L - 1, pos>> >>
                      \o InsertVisits(ht, key, i, attempt, tried, offset + 1)
    ELSE IF attempt >= ht.R THEN InsertVisits(ht, key, i + 1, 0, {}, 0)
    ELSE LET pos == HashAt(key, i, attempt, Len(ht.levels[i + 1]))
         IN  IF pos < TriedLen /\ pos \in tried
             THEN InsertVisits(ht, key, i, attempt + 1, tried, 0)
             ELSE IF Free(Slot(ht, i, pos)) THEN << <<i, pos>> >>
             ELSE << <<i, pos>> >>
                      \o InsertVisits(ht, key, i, attempt + 1, Tried(tried, pos), 0)

\* the number of slots a loop over key's bucket of level i reads from slot j on,
\* the loop ending at the first slot whose value is in stops
RECURSIVE BucketReads(_, _, _, _, _)
BucketReads(ht, key, i, j, stops) ==
    IF j >= ht.b THEN 0
    ELSE IF BucketSlot(ht, key, i, j) \in stops THEN 1
    ELSE 1 + BucketReads(ht, key, i, j + 1, stops)

\* a scan of the special array that goes one offset too far
RECURSIVE SpecialReadsOffByOne(_, _, _)
SpecialReadsOffByOne(ht, key, offset) ==
    IF offset > Len(ht.special) THEN 0
    ELSE IF ht.special[SpecialPos(ht, key, offset) + 1] \in {key, EMPTY} THEN 1
    ELSE 1 + SpecialReadsOffByOne(ht, key, offset + 1)

\* the number of slots of the special array read from offset on, by Insert and by
\* Contains: up to the key or an EMPTY slot
RECURSIVE SpecialReads(_, _, _)
SpecialReads(ht, key, offset) ==
    IF offset >= Len(ht.special) THEN 0
    ELSE IF ht.special[SpecialPos(ht, key, offset) + 1] \in {key, EMPTY} THEN 1
    ELSE 1 + SpecialReads(ht, key, offset + 1)

\* the number of slots Insert of the funnel table reads from level i on: per level
\* the loop that looks for the key, then the loop that looks for an EMPTY slot
RECURSIVE FunnelInsertReads(_, _, _)
FunnelInsertReads(ht, key, i) ==
    IF i >= Len(ht.levels) THEN SpecialReads(ht, key, 0)
    ELSE IF \E j \in 0..(ht.b - 1) : BucketSlot(ht, key, i, j) = key
    THEN BucketReads(ht, key, i, 0, {key})
    ELSE ht.b + BucketReads(ht, key, i, 0, {EMPTY})
         + (IF FirstEmptyInBucket(ht, key, i, 0) >= 0 THEN 0
            ELSE FunnelInsertReads(ht, key, i + 1))

\* the number of slots Contains of the funnel table reads from level i on
RECURSIVE FunnelContainsReads(_, _, _)
FunnelContainsReads(ht, key, i) ==
    IF i >= Len(ht.levels) THEN SpecialReads(ht, key, 0)
    ELSE BucketReads(ht, key, i, 0, {key, EMPTY})
         + (IF FunnelContainsBucket(ht, key, i, 0) THEN 0
            ELSE FunnelContainsReads(ht, key, i + 1))

(***************************************************************************)
(* The state: one table, elastic or funnel, driven by sequential calls.   *)
(* live is the set of keys for which an Insert returned nil with no        *)
(* Remove of the key called after it.                                      *)
(* The value a call returns is the err / found field of its operator.     *)
(* args holds the arguments the table was constructed with: <<N, d>> or   *)
(* <<N, b, d>>.                                                            *)
(***************************************************************************)
VARIABLES variant, args, eht, fht, live, panic, procs

vars == <<variant, args, eht, fht, live, panic, procs>>

\* the value of a panic, and no panic
NoPanic == ""
PanicDelta == "delta must be in (0,1)"
PanicDivide == "runtime error: integer divide by zero"

\* which table the program has built
IsElastic == variant = "elastic"
IsFunnel == variant = "funnel"

\* no goroutine besides the caller
NoProcs == << >>

\* the table of the variant that is not built
NoElastic == [levels |-> <<>>, L |-> 0, R |-> 0, size |-> 0, capacity |-> 0]
NoFunnel == [levels |-> <<>>, special |-> <<>>, b |-> 0, size |-> 0, capacity |-> 0]

Init ==
    \/ /\ variant = "elastic"
       /\ \E c \in ElasticConfigs : args = c /\ eht = NewElasticHashTable(c[1], c[2])
       /\ fht = NoFunnel
       /\ live = {}
       /\ panic = NoPanic
       /\ procs = NoProcs
    \/ /\ variant = "funnel"
       /\ \E c \in FunnelConfigs : args = c /\ fht = NewFunnelHashTable(c[1], c[2], c[3])
       /\ eht = NoElastic
       /\ live = {}
       /\ panic = NoPanic
       /\ procs = NoProcs

\* live after Insert(k) returned err
AfterInsert(k, err) == IF err = ErrNil THEN live \cup {k} ELSE live

\* live after Remove(k) returned
AfterRemove(k, found) == live \ {k}

\* the state after a call of Insert that returned r = [ht, err]
ElasticInserted(k, r) ==
    /\ eht' = r.ht
    /\ live' = AfterInsert(k, r.err)
    /\ UNCHANGED <<variant, args, fht, panic, procs>>

\* the state after a call that panicked
Panicked(p) ==
    /\ panic' = p
    /\ UNCHANGED <<variant, args, eht, fht, live, procs>>

\* some level has no slot: only then is hashFunc given the modulus 0
SomeLevelEmpty(ht) == \E i \in DOMAIN ht.levels : Len(ht.levels[i]) = 0

\* Insert panics in the hashFunc of its call of Contains or of its own loops
ElasticInsertDivides(ht, k) ==
    /\ SomeLevelEmpty(ht)
    /\ ht.size < ht.capacity
    /\ \/ Divides(ContainsVisits(ht, k, 0, 0, {}, 0))
       \/ ~ElasticContains(ht, k) /\ Divides(InsertVisits(ht, k, 0, 0, {}, 0))

CallElasticInsert(k) ==
    /\ variant = "elastic"
    /\ panic = NoPanic
    /\ IF ElasticInsertDivides(eht, k) THEN Panicked(PanicDivide)
       ELSE ElasticInserted(k, ElasticInsert(eht, k))

\* Contains reads the slots and writes nothing
CallElasticContains(k) ==
    /\ variant = "elastic"
    /\ panic = NoPanic
    /\ IF SomeLevelEmpty(eht) /\ Divides(ContainsVisits(eht, k, 0, 0, {}, 0))
       THEN Panicked(PanicDivide)
       ELSE /\ ElasticContains(eht, k) \in BOOLEAN
            /\ UNCHANGED <<variant, args, eht, fht, live, panic, procs>>

\* the state after a call of Remove that returned r = [ht, found]
ElasticRemoved(k, r) ==
    /\ eht' = r.ht
    /\ live' = AfterRemove(k, r.found)
    /\ UNCHANGED <<variant, args, fht, panic, procs>>

CallElasticRemove(k) ==
    /\ variant = "elastic"
    /\ panic = NoPanic
    /\ IF SomeLevelEmpty(eht) /\ Divides(RemoveVisits(eht, k, 0, 0, {}, 0))
       THEN Panicked(PanicDivide)
       ELSE ElasticRemoved(k, ElasticRemove(eht, k))

FunnelInserted(k, r) ==
    /\ fht' = r.ht
    /\ live' = AfterInsert(k, r.err)
    /\ UNCHANGED <<variant, args, eht, panic, procs>>

CallFunnelInsert(k) ==
    /\ variant = "funnel"
    /\ FunnelInserted(k, FunnelInsert(fht, k))

CallFunnelContains(k) ==
    /\ variant = "funnel"
    /\ FunnelContains(fht, k) \in BOOLEAN
    /\ UNCHANGED <<variant, args, eht, fht, live, panic, procs>>

Next ==
    \/ \E k \in ElasticKeys : CallElasticInsert(k)
    \/ \E k \in ElasticKeys : CallElasticContains(k)
    \/ \E k \in ElasticKeys : CallElasticRemove(k)
    \/ \E k \in FunnelKeys : CallFunnelInsert(k)
    \/ \E k \in FunnelKeys : CallFunnelContains(k)

Spec == Init /\ [][Next]_vars



(***************************************************************************)
(* The sequential calls again, the elastic table being given keys that     *)
(* probe several positions in each level.                                  *)
(***************************************************************************)
LowConfig == <<13, 0>>

InitLow ==
    \/ /\ variant = "elastic"
       /\ args = LowConfig
       /\ eht = NewElasticHashTable(args[1], args[2])
       /\ fht = NoFunnel
       /\ live = {}
       /\ panic = NoPanic
       /\ procs = NoProcs
    \/ /\ variant = "funnel"
       /\ \E c \in FunnelConfigs : args = c /\ fht = NewFunnelHashTable(c[1], c[2], c[3])
       /\ eht = NoElastic
       /\ live = {}
       /\ panic = NoPanic
       /\ procs = NoProcs

NextLow ==
    \/ \E k \in LowKeys : CallElasticInsert(k)
    \/ \E k \in LowKeys : CallElasticContains(k)
    \/ \E k \in LowKeys : CallElasticRemove(k)
    \/ \E k \in FunnelKeys : CallFunnelInsert(k)
    \/ \E k \in FunnelKeys : CallFunnelContains(k)

SpecLow == InitLow /\ [][NextLow]_vars


(***************************************************************************)
(* The sequential calls on tables that can be filled: an elastic table of  *)
(* 6 keys in levels of 4, 4, 4 and 1 slots, funnel tables whose special    *)
(* array takes two keys.                                                   *)
(***************************************************************************)
FullConfig == <<13, 2>>
FullKeys == (0..2) \cup CollidingKeys

InitFull ==
    \/ /\ variant = "elastic"
       /\ args = FullConfig
       /\ eht = NewElasticHashTable(args[1], args[2])
       /\ fht = NoFunnel
       /\ live = {}
       /\ panic = NoPanic
       /\ procs = NoProcs
    \/ /\ variant = "funnel"
       /\ \E c \in OverflowConfigs : args = c /\ fht = NewFunnelHashTable(c[1], c[2], c[3])
       /\ eht = NoElastic
       /\ live = {}
       /\ panic = NoPanic
       /\ procs = NoProcs

NextFull ==
    \/ \E k \in FullKeys : CallElasticInsert(k)
    \/ \E k \in FullKeys : CallElasticContains(k)
    \/ \E k \in FullKeys : CallElasticRemove(k)
    \/ \E k \in OverflowKeys : CallFunnelInsert(k)
    \/ \E k \in OverflowKeys : CallFunnelContains(k)

SpecFull == InitFull /\ [][NextFull]_vars


(***************************************************************************)
(* The two reductions of an index to a region of m slots, m a power of     *)
(* two, run side by side: the probe loop of a last level or of a special   *)
(* array from each start, and the bucket index of each key.  procs holds   *)
(* the offset reached and the positions each reduction gave so far.        *)
(***************************************************************************)
MaxMaskBits == 4

PowersOfTwo == {Pow2(n) : n \in 0..MaxMaskBits}
FunnelPowersOfTwo == {m \in PowersOfTwo : m <= MaxFunnelLen}

NoPositions == [offset |-> 0, masked |-> << >>, modulo |-> << >>]

InitIndex ==
    /\ \/ /\ variant = "last level"
          /\ \E m \in PowersOfTwo : \E start \in 0..(m - 1) : args = <<m, start>>
       \/ /\ variant \in {"special array", "bucket"}
          /\ \E m \in FunnelPowersOfTwo : \E key \in FunnelKeys : args = <<m, key>>
    /\ eht = NoElastic
    /\ fht = NoFunnel
    /\ live = {}
    /\ panic = NoPanic
    /\ procs = NoPositions

\* the state after the two reductions gave the positions masked and modulo
Reached(masked, modulo) ==
    /\ procs' = [offset |-> procs.offset + 1,
                 masked |-> Append(procs.masked, masked),
                 modulo |-> Append(procs.modulo, modulo)]
    /\ UNCHANGED <<variant, args, eht, fht, live, panic>>

\* one turn of the loop over the last level of the elastic table
ProbeLastLevel ==
    /\ variant = "last level"
    /\ procs.offset < args[1]
    /\ Reached(MaskedPos(args[2], procs.offset, args[1]),
               ModuloPos(args[2], procs.offset, args[1]))

\* one turn of the loop over the special array of the funnel table
ProbeSpecial ==
    /\ variant = "special array"
    /\ procs.offset < args[1]
    /\ Reached(MaskedPos(FunnelMixTable[args[2]].h0.masked[args[1]], procs.offset, args[1]),
               ModuloPos(FunnelMixTable[args[2]].h0.mod[args[1]], procs.offset, args[1]))

\* hashFunc of the funnel table
HashBucket ==
    /\ variant = "bucket"
    /\ procs.offset = 0
    /\ Reached(FunnelMixTable[args[2]].h.masked[args[1]],
               FunnelMixTable[args[2]].h.mod[args[1]])

NextIndex == ProbeLastLevel \/ ProbeSpecial \/ HashBucket

SpecIndex == InitIndex /\ [][NextIndex]_vars


(***************************************************************************)
(* The two slot hashes on their own: hashFunc of either table is called    *)
(* once with a key, a level, an attempt and a modulus (the length of a     *)
(* level, or the bucket count of a level built by NewLevel).               *)
(***************************************************************************)
MaxHashMod == 7
\* small keys, a key of the colliding run and the largest 32-bit int
HashKeys == {0, 1, 372788, 2147483647}
HashMods == 1..MaxHashMod
HashLevels == 0..(ElasticL - 1)

\* hashFunc of the funnel table on the level record it reads
FunnelLevelHash(key, level) ==
    IF level.mask > 0 THEN WordToInt(WordAnd(FunnelMix(key), ToWord(level.mask, 4)))
    ELSE WordMod(FunnelMix(key), level.numBuckets)

InitHash ==
    /\ \/ /\ variant = "elastic"
          /\ args \in HashKeys \X HashLevels \X (0..(UnrolledAttempts - 1)) \X HashMods
       \/ /\ variant = "funnel"
          /\ args \in HashKeys \X HashLevels \X HashMods
    /\ eht = NoElastic
    /\ fht = NoFunnel
    /\ live = {}
    /\ panic = NoPanic
    /\ procs = NoProcs

\* ht.hashFunc(key, level, attempt, mod) returns
CallElasticHashFunc ==
    /\ variant = "elastic"
    /\ procs = NoProcs
    /\ procs' = <<hashFunc(args[1], args[2], args[3], args[4])>>
    /\ UNCHANGED <<variant, args, eht, fht, live, panic>>

\* ht.hashFunc(key, levelIdx) returns, ht.levels[levelIdx] holding args[3] buckets
CallFunnelHashFunc ==
    /\ variant = "funnel"
    /\ procs = NoProcs
    /\ procs' = <<FunnelLevelHash(args[1], NewLevel(args[3], 1))>>
    /\ UNCHANGED <<variant, args, eht, fht, live, panic>>

NextHash == CallElasticHashFunc \/ CallFunnelHashFunc

SpecHash == InitHash /\ [][NextHash]_vars


(***************************************************************************)
(* The sequential calls on the elastic tables of the small sizes: N <= 8   *)
(* leaves level 2 without a slot.                                          *)
(***************************************************************************)
MaxSmallN == 9
SmallConfigs == (1..MaxSmallN) \X {0, 3}

InitSmall ==
    /\ variant = "elastic"
    /\ \E c \in SmallConfigs : args = c /\ eht = NewElasticHashTable(c[1], c[2])
    /\ fht = NoFunnel
    /\ live = {}
    /\ panic = NoPanic
    /\ procs = NoProcs

NextSmall ==
    \/ \E k \in ElasticKeys : CallElasticInsert(k)
    \/ \E k \in ElasticKeys : CallElasticContains(k)
    \/ \E k \in ElasticKeys : CallElasticRemove(k)

SpecSmall == InitSmall /\ [][NextSmall]_vars

(***************************************************************************)
(* The constructors called with any arguments.  delta is d/4: d < 0 is a   *)
(* delta below 0, d >= 4 a delta of 1 or more.                             *)
(***************************************************************************)
MaxNewN == 14
NewSizes == 1..MaxNewN
NewDeltas == -1..5
NewBuckets == -2..2

\* NewElasticHashTable(N, delta): the panic raised if any, the table returned if
\* any, and whether make([][]int, L) ran
NewElasticCall(N, d) ==
    IF d < 0 \/ d >= 4 THEN [panic |-> PanicDelta, ht |-> NoElastic, levelsMade |-> FALSE]
    ELSE [panic |-> NoPanic, ht |-> NewElasticHashTable(N, d), levelsMade |-> TRUE]

\* NewFunnelHashTable(N, b, delta): b is not examined; b = 0 stops the first
\* size_i / b, after make([]Level, B) and before the slots of any level are made
NewFunnelCall(N, b, d) ==
    IF d < 0 \/ d >= 4 THEN [panic |-> PanicDelta, ht |-> NoFunnel, levelsMade |-> FALSE]
    ELSE IF b = 0 THEN [panic |-> PanicDivide, ht |-> NoFunnel, levelsMade |-> TRUE]
    ELSE [panic |-> NoPanic, ht |-> NewFunnelHashTable(N, b, d), levelsMade |-> TRUE]

\* before the call of the constructor: arguments chosen, no table
InitNew ==
    /\ \/ variant = "elastic" /\ args \in NewSizes \X NewDeltas
       \/ variant = "funnel" /\ args \in NewSizes \X NewBuckets \X NewDeltas
    /\ eht = NoElastic
    /\ fht = NoFunnel
    /\ live = {}
    /\ panic = NoPanic
    /\ procs = NoProcs

\* the constructor has returned or panicked
Constructed == eht # NoElastic \/ fht # NoFunnel \/ panic # NoPanic

ElasticConstructed(r) ==
    /\ eht' = r.ht
    /\ panic' = r.panic
    /\ UNCHANGED <<variant, args, fht, live, procs>>

CallNewElasticHashTable ==
    /\ variant = "elastic"
    /\ ~Constructed
    /\ ElasticConstructed(NewElasticCall(args[1], args[2]))

FunnelConstructed(r) ==
    /\ fht' = r.ht
    /\ panic' = r.panic
    /\ UNCHANGED <<variant, args, eht, live, procs>>

CallNewFunnelHashTable ==
    /\ variant = "funnel"
    /\ ~Constructed
    /\ FunnelConstructed(NewFunnelCall(args[1], args[2], args[3]))

NextNew ==
    \/ CallNewElasticHashTable
    \/ CallNewFunnelHashTable

SpecNew == InitNew /\ [][NextNew]_vars


(***************************************************************************)
(* An elastic and a funnel table of the same N and delta, given the same   *)
(* calls while both are below capacity.  The methods of *FunnelHashTable   *)
(* are hashFunc, Insert, Contains, Size and Capacity: a call sequence both *)
(* tables accept is made of these.                                         *)
(***************************************************************************)
ElasticMethods == {"hashFunc", "Insert", "Contains", "Remove", "Size", "Capacity"}
FunnelMethods == {"hashFunc", "Insert", "Contains", "Size", "Capacity"}

IsPair == variant = "pair"

InitPair ==
    /\ variant = "pair"
    /\ \E c \in PairConfigs :
          /\ args = c
          /\ eht = NewElasticHashTable(c[1], c[3])
          /\ fht = NewFunnelHashTable(c[1], c[2], c[3])
    /\ live = {}
    /\ panic = NoPanic
    /\ procs = NoProcs

\* the state after eht.Insert(k) returned re and fht.Insert(k) returned rf
PairInserted(k, re, rf) ==
    /\ eht' = re.ht
    /\ fht' = rf.ht
    /\ live' = AfterInsert(k, re.err)
    /\ UNCHANGED <<variant, args, panic, procs>>

PairInsert(k) ==
    /\ IsPair
    /\ eht.size < eht.capacity
    /\ fht.size < fht.capacity
    /\ PairInserted(k, ElasticInsert(eht, k), FunnelInsert(fht, k))

PairContains(k) ==
    /\ IsPair
    /\ ElasticContains(eht, k) \in BOOLEAN
    /\ FunnelContains(fht, k) \in BOOLEAN
    /\ UNCHANGED vars

NextPair ==
    \/ \E k \in ElasticKeys : PairInsert(k)
    \/ \E k \in ElasticKeys : PairContains(k)

SpecPair == InitPair /\ [][NextPair]_vars


(***************************************************************************)
(* Goroutines calling one table without a lock.  A step is a stretch of a  *)
(* method between two accesses to shared memory that the method separates: *)
(* the load of size, the reads of a scan, the write of the slot found, the *)
(* update of size.  The reads of one scan are taken together, so the       *)
(* schedules here are some of the schedules of the program, not all.       *)
(***************************************************************************)
Goroutines == {1, 2}
MaxCalls == 2

\* the keys goroutine g passes: the goroutines pass distinct keys
KeysOf(g) == IF g = 1 THEN {0, 372788} ELSE {372789, 372790}

ConcElasticConfig == <<13, 3>>
ConcFunnelConfig == <<8, 1, 1>>

\* a goroutine between two calls, hist being the calls it has completed
Idle(hist) == [pc |-> "idle", op |-> "", key |-> 0, lvl |-> 0, pos |-> 0, tmp |-> 0,
               hist |-> hist]

InitConc ==
    /\ \/ /\ variant = "elastic"
          /\ args = ConcElasticConfig
          /\ eht = NewElasticHashTable(args[1], args[2])
          /\ fht = NoFunnel
       \/ /\ variant = "funnel"
          /\ args = ConcFunnelConfig
          /\ fht = NewFunnelHashTable(args[1], args[2], args[3])
          /\ eht = NoElastic
    /\ live = {}
    /\ panic = NoPanic
    /\ procs = [g \in Goroutines |-> Idle(<< >>)]

\* goroutine g may start a call
CanCall(g) == procs[g].pc = "idle" /\ Len(procs[g].hist) < MaxCalls

\* goroutine g is at pc of the method op
At(g, op, pc) == procs[g].op = op /\ procs[g].pc = pc

\* the call of goroutine g returns ret
Return(g, op, key, ret) ==
    procs' = [procs EXCEPT ![g] = Idle(Append(@.hist, [op |-> op, key |-> key, ret |-> ret]))]

\* goroutine g goes on to pc
Goto(g, op, key, pc) == procs' = [procs EXCEPT ![g].op = op, ![g].key = key, ![g].pc = pc]

\* goroutine g goes on to pc, to access slot pos of level lvl
GotoSlot(g, op, key, pc, slot) ==
    procs' = [procs EXCEPT ![g].op = op, ![g].key = key, ![g].pc = pc,
                           ![g].lvl = slot[1], ![g].pos = slot[2]]

\* the slot <<level, pos>> in which two elastic tables differ
ElasticSlots(ht) ==
    UNION { { <<i, p>> : p \in 0..(Len(ht.levels[i + 1]) - 1) } : i \in 0..(ht.L - 1) }

ElasticTarget(old, new) ==
    CHOOSE s \in ElasticSlots(old) : Slot(new, s[1], s[2]) # Slot(old, s[1], s[2])

\* the slot in which two funnel tables differ, the special array being level B
FunnelSlotsOf(ht) ==
    UNION { { <<i, p>> : p \in 0..(Len(ht.levels[i + 1].slots) - 1) }
            : i \in 0..(Len(ht.levels) - 1) }
    \cup { <<Len(ht.levels), p>> : p \in 0..(Len(ht.special) - 1) }

FunnelSlot(ht, s) ==
    IF s[1] = Len(ht.levels) THEN ht.special[s[2] + 1] ELSE ht.levels[s[1] + 1].slots[s[2] + 1]

FunnelTarget(old, new) ==
    CHOOSE s \in FunnelSlotsOf(old) : FunnelSlot(new, s) # FunnelSlot(old, s)

\* Insert of the elastic table: atomic.LoadInt32(&ht.size) >= int32(ht.capacity)
ElasticInsertCheck(g, k) ==
    /\ IsElastic /\ CanCall(g)
    /\ IF eht.size >= eht.capacity THEN Return(g, "Insert", k, ErrElasticFull)
       ELSE Goto(g, "Insert", k, "lookup")
    /\ UNCHANGED <<variant, args, eht, fht, live, panic>>

\* if ht.Contains(key) { return nil }
ElasticInsertLookup(g) ==
    /\ IsElastic /\ At(g, "Insert", "lookup")
    /\ IF ElasticContains(eht, procs[g].key) THEN Return(g, "Insert", procs[g].key, ErrNil)
       ELSE Goto(g, "Insert", procs[g].key, "probe")
    /\ UNCHANGED <<variant, args, eht, fht, live, panic>>

\* the probes up to the slot read EMPTY or TOMBSTONE
ElasticInsertFound(g, r) ==
    IF r.err # ErrNil THEN Return(g, "Insert", procs[g].key, r.err)
    ELSE GotoSlot(g, "Insert", procs[g].key, "write", ElasticTarget(eht, r.ht))

ElasticInsertProbe(g) ==
    /\ IsElastic /\ At(g, "Insert", "probe")
    /\ ElasticInsertFound(g, InsertProbe(eht, procs[g].key, 0, 0, {}))
    /\ UNCHANGED <<variant, args, eht, fht, live, panic>>

\* ht.levels[i][pos] = key
ElasticInsertWrite(g) ==
    /\ IsElastic /\ At(g, "Insert", "write")
    /\ eht' = SetSlot(eht, procs[g].lvl, procs[g].pos, procs[g].key)
    /\ Goto(g, "Insert", procs[g].key, "count")
    /\ UNCHANGED <<variant, args, fht, live, panic>>

\* atomic.AddInt32(&ht.size, 1); return nil
ElasticInsertCount(g) ==
    /\ IsElastic /\ At(g, "Insert", "count")
    /\ eht' = [eht EXCEPT !.size = @ + 1]
    /\ Return(g, "Insert", procs[g].key, ErrNil)
    /\ UNCHANGED <<variant, args, fht, live, panic>>

\* Remove of the elastic table: the probes up to the slot read equal to key
ElasticRemoveFound(g, k, r) ==
    IF ~r.found THEN Return(g, "Remove", k, FALSE)
    ELSE GotoSlot(g, "Remove", k, "write", ElasticTarget(eht, r.ht))

ElasticRemoveScan(g, k) ==
    /\ IsElastic /\ CanCall(g)
    /\ ElasticRemoveFound(g, k, ElasticRemove(eht, k))
    /\ UNCHANGED <<variant, args, eht, fht, live, panic>>

\* ht.levels[i][pos] = TOMBSTONE
ElasticRemoveWrite(g) ==
    /\ IsElastic /\ At(g, "Remove", "write")
    /\ eht' = SetSlot(eht, procs[g].lvl, procs[g].pos, TOMBSTONE)
    /\ Goto(g, "Remove", procs[g].key, "count")
    /\ UNCHANGED <<variant, args, fht, live, panic>>

\* atomic.AddInt32(&ht.size, -1); return true
ElasticRemoveCount(g) ==
    /\ IsElastic /\ At(g, "Remove", "count")
    /\ eht' = [eht EXCEPT !.size = @ - 1]
    /\ Return(g, "Remove", procs[g].key, TRUE)
    /\ UNCHANGED <<variant, args, fht, live, panic>>

\* a Contains that takes the key out where it finds it, as Remove does
ElasticContainsScanRemoves(g, k) ==
    /\ IsElastic /\ CanCall(g)
    /\ Return(g, "Contains", k, ElasticContains(eht, k))
    /\ eht' = ElasticRemove(eht, k).ht
    /\ UNCHANGED <<variant, args, fht, live, panic>>

\* Contains of the elastic table
ElasticContainsScan(g, k) ==
    /\ IsElastic /\ CanCall(g)
    /\ Return(g, "Contains", k, ElasticContains(eht, k))
    /\ UNCHANGED <<variant, args, eht, fht, live, panic>>

\* Insert of the funnel table: ht.size >= ht.capacity, a plain read
FunnelInsertCheck(g, k) ==
    /\ IsFunnel /\ CanCall(g)
    /\ IF fht.size >= fht.capacity THEN Return(g, "Insert", k, ErrFunnelFull)
       ELSE Goto(g, "Insert", k, "probe")
    /\ UNCHANGED <<variant, args, eht, fht, live, panic>>

\* the buckets and the special array up to the key or the slot read EMPTY
FunnelInsertFound(g, r) ==
    IF r.err # ErrNil \/ r.ht = fht THEN Return(g, "Insert", procs[g].key, r.err)
    ELSE GotoSlot(g, "Insert", procs[g].key, "write", FunnelTarget(fht, r.ht))

FunnelInsertProbe(g) ==
    /\ IsFunnel /\ At(g, "Insert", "probe")
    /\ FunnelInsertFound(g, FunnelInsertLevels(fht, procs[g].key, 0))
    /\ UNCHANGED <<variant, args, eht, fht, live, panic>>

\* lvl.slots[slotIndex] = key, or ht.special[pos] = key
FunnelInsertWrite(g) ==
    /\ IsFunnel /\ At(g, "Insert", "write")
    /\ fht' = IF procs[g].lvl = Len(fht.levels)
              THEN [fht EXCEPT !.special[procs[g].pos + 1] = procs[g].key]
              ELSE [fht EXCEPT !.levels[procs[g].lvl + 1].slots[procs[g].pos + 1] = procs[g].key]
    /\ Goto(g, "Insert", procs[g].key, "load")
    /\ UNCHANGED <<variant, args, eht, live, panic>>

\* ht.size++ is a plain read of ht.size ...
FunnelInsertLoad(g) ==
    /\ IsFunnel /\ At(g, "Insert", "load")
    /\ procs' = [procs EXCEPT ![g].pc = "store", ![g].tmp = fht.size]
    /\ UNCHANGED <<variant, args, eht, fht, live, panic>>

\* ... and a plain write of the value read plus one; return nil
FunnelInsertStore(g) ==
    /\ IsFunnel /\ At(g, "Insert", "store")
    /\ fht' = [fht EXCEPT !.size = procs[g].tmp + 1]
    /\ Return(g, "Insert", procs[g].key, ErrNil)
    /\ UNCHANGED <<variant, args, eht, live, panic>>

\* Contains of the funnel table
FunnelContainsScan(g, k) ==
    /\ IsFunnel /\ CanCall(g)
    /\ Return(g, "Contains", k, FunnelContains(fht, k))
    /\ UNCHANGED <<variant, args, eht, fht, live, panic>>

NextConc ==
    \/ \E g \in Goroutines : \E k \in KeysOf(g) : ElasticInsertCheck(g, k)
    \/ \E g \in Goroutines : ElasticInsertLookup(g)
    \/ \E g \in Goroutines : ElasticInsertProbe(g)
    \/ \E g \in Goroutines : ElasticInsertWrite(g)
    \/ \E g \in Goroutines : ElasticInsertCount(g)
    \/ \E g \in Goroutines : \E k \in KeysOf(g) : ElasticRemoveScan(g, k)
    \/ \E g \in Goroutines : ElasticRemoveWrite(g)
    \/ \E g \in Goroutines : ElasticRemoveCount(g)
    \/ \E g \in Goroutines : \E k \in KeysOf(g) : ElasticContainsScan(g, k)
    \/ \E g \in Goroutines : \E k \in KeysOf(g) : FunnelInsertCheck(g, k)
    \/ \E g \in Goroutines : FunnelInsertProbe(g)
    \/ \E g \in Goroutines : FunnelInsertWrite(g)
    \/ \E g \in Goroutines : FunnelInsertLoad(g)
    \/ \E g \in Goroutines : FunnelInsertStore(g)
    \/ \E g \in Goroutines : \E k \in KeysOf(g) : FunnelContainsScan(g, k)

SpecConc == InitConc /\ [][NextConc]_vars

(***************************************************************************)
(* Two goroutines that call Remove with the same keys on an elastic table  *)
(* that holds them, without a lock.                                        *)
(***************************************************************************)
\* the keys the caller has inserted before the goroutines start
RemoveKeys == {0, 372788}

\* the table after the sequential Insert of the first key, or of both keys, of
\* RemoveKeys
InitRemove ==
    /\ variant = "elastic"
    /\ args = ConcElasticConfig
    /\ \/ /\ eht = ElasticInsert(NewElasticHashTable(args[1], args[2]), 0).ht
          /\ live = {0}
       \/ /\ eht = ElasticInsert(ElasticInsert(NewElasticHashTable(args[1], args[2]), 0).ht,
                                 372788).ht
          /\ live = RemoveKeys
    /\ fht = NoFunnel
    /\ panic = NoPanic
    /\ procs = [g \in Goroutines |-> Idle(<< >>)]

NextRemove ==
    \/ \E g \in Goroutines : \E k \in RemoveKeys : ElasticRemoveScan(g, k)
    \/ \E g \in Goroutines : ElasticRemoveWrite(g)
    \/ \E g \in Goroutines : ElasticRemoveCount(g)

SpecRemove == InitRemove /\ [][NextRemove]_vars

(***************************************************************************)
(* Two tables of one variant, built by the same constructor call and       *)
(* given the same calls: the first table takes each call, then the second  *)
(* table takes the same call.  procs holds what the last call of either    *)
(* table returned and the call the second table has still to take.         *)
(***************************************************************************)
MaxTwinKey == 2

\* the keys passed to the two tables
TwinKeys == IF variant = "elastic" THEN 0..MaxTwinKey ELSE FunnelKeys

\* a table whose Insert fails while the other table is one call ahead
ElasticCallWhenLevel(ht, method, key) ==
    IF method = "Insert"
    THEN IF procs.pending # << >> THEN [ht |-> ht, err |-> ErrElasticFull]
         ELSE ElasticInsert(ht, key)
    ELSE IF method = "Remove" THEN ElasticRemove(ht, key)
    ELSE [ht |-> ht, found |-> ElasticContains(ht, key)]

\* ht.Insert(key), ht.Remove(key) or ht.Contains(key) on an elastic table: the
\* table afterwards and what the call returned
ElasticCall(ht, method, key) ==
    IF method = "Insert" THEN ElasticInsert(ht, key)
    ELSE IF method = "Remove" THEN ElasticRemove(ht, key)
    ELSE [ht |-> ht, found |-> ElasticContains(ht, key)]

\* ht.Insert(key) or ht.Contains(key) on a funnel table
FunnelCall(ht, method, key) ==
    IF method = "Insert" THEN FunnelInsert(ht, key)
    ELSE [ht |-> ht, found |-> FunnelContains(ht, key)]

\* first and second are the two tables after their last call, with what the
\* call returned; the first table is also eht or fht
InitTwin ==
    /\ \/ /\ variant = "elastic"
          /\ \E c \in ElasticConfigs : args = c /\ eht = NewElasticHashTable(c[1], c[2])
          /\ fht = NoFunnel
          /\ procs = [first |-> [ht |-> eht], second |-> [ht |-> eht], pending |-> << >>]
       \/ /\ variant = "funnel"
          /\ args = ConcFunnelConfig
          /\ fht = NewFunnelHashTable(args[1], args[2], args[3])
          /\ eht = NoElastic
          /\ procs = [first |-> [ht |-> fht], second |-> [ht |-> fht], pending |-> << >>]
    /\ live = {}
    /\ panic = NoPanic

\* the first table takes the call method(k)
TwinFirst(method, k) ==
    /\ procs.pending = << >>
    /\ \/ /\ variant = "elastic"
          /\ method \in {"Insert", "Contains", "Remove"}
          /\ procs' = [procs EXCEPT !.first = ElasticCall(eht, method, k),
                                    !.pending = <<method, k>>]
          /\ eht' = procs'.first.ht
          /\ UNCHANGED fht
       \/ /\ variant = "funnel"
          /\ method \in {"Insert", "Contains"}
          /\ procs' = [procs EXCEPT !.first = FunnelCall(fht, method, k),
                                    !.pending = <<method, k>>]
          /\ fht' = procs'.first.ht
          /\ UNCHANGED eht
    /\ UNCHANGED <<variant, args, live, panic>>

\* the second table takes the call the first table took
TwinSecond ==
    /\ procs.pending # << >>
    /\ procs' = [procs EXCEPT
                   !.second = IF variant = "elastic"
                              THEN ElasticCall(@.ht, procs.pending[1], procs.pending[2])
                              ELSE FunnelCall(@.ht, procs.pending[1], procs.pending[2]),
                   !.pending = << >>]
    /\ UNCHANGED <<variant, args, eht, fht, live, panic>>

NextTwin ==
    \/ \E method \in {"Insert", "Contains", "Remove"} : \E k \in TwinKeys : TwinFirst(method, k)
    \/ TwinSecond

SpecTwin == InitTwin /\ [][NextTwin]_vars

(***************************************************************************)
(* What the tables hold.                                                   *)
(***************************************************************************)
\* the positions of a slice that hold a key (neither EMPTY nor TOMBSTONE)
HeldIn(slots) == {p \in DOMAIN slots : slots[p] >= 0}

\* the positions of a slice that hold the value v
Holding(slots, v) == {p \in DOMAIN slots : slots[p] = v}

\* number of slots of the elastic table with value v
ElasticCount(ht, v) ==
    SumTo([i \in 0..(ht.L - 1) |-> Cardinality(Holding(ht.levels[i + 1], v))], ht.L - 1)

\* number of slots of the funnel table with value v
FunnelCount(ht, v) ==
    SumTo([i \in 0..(Len(ht.levels) - 1) |->
              Cardinality(Holding(ht.levels[i + 1].slots, v))], Len(ht.levels) - 1)
    + Cardinality(Holding(ht.special, v))

\* number of slots that hold a key
ElasticKeySlots(ht) ==
    SumTo([i \in 0..(ht.L - 1) |-> Cardinality(HeldIn(ht.levels[i + 1]))], ht.L - 1)

FunnelKeySlots(ht) ==
    SumTo([i \in 0..(Len(ht.levels) - 1) |->
              Cardinality(HeldIn(ht.levels[i + 1].slots))], Len(ht.levels) - 1)
    + Cardinality(HeldIn(ht.special))

(***************************************************************************)
(* C1.  Elastic table: Contains(k) is true for every key whose most recent *)
(* successful Insert was not followed by a Remove(k), whatever was         *)
(* inserted and removed in between and whatever tombstones that left.      *)
(***************************************************************************)
C1_NoFalseNegative ==
    IsElastic => \A k \in live : ElasticContains(eht, k)

\* a live key found below level 0 while level 0 holds the tombstone of a removed key
C1_Witness ==
    /\ IsElastic
    /\ \E k \in live :
          /\ Holding(eht.levels[1], k) = {}
          /\ Holding(eht.levels[1], TOMBSTONE) # {}
          /\ ElasticContains(eht, k)

(***************************************************************************)
(* C2.  Elastic table: Contains(k) is false for a key that was never       *)
(* inserted and for a key whose last Remove returned true with no Insert   *)
(* of it after: for every key that is not live.                            *)
(***************************************************************************)
C2_NoFalsePositive ==
    IsElastic => \A k \in ElasticKeys \ live : ~ElasticContains(eht, k)

\* two keys removed (their tombstones remain), one live: Contains tells them apart
C2_Witness ==
    /\ IsElastic
    /\ ElasticCount(eht, TOMBSTONE) = 2
    /\ Cardinality(live) = 1
    /\ \A k \in ElasticKeys : ElasticContains(eht, k) <=> k \in live

(***************************************************************************)
(* C3.  Funnel table, Insert calls only: Contains(k) is true if and only   *)
(* if some earlier Insert(k) returned success.                             *)
(***************************************************************************)
C3_FunnelContainsIffInserted ==
    IsFunnel => \A k \in FunnelKeys : FunnelContains(fht, k) <=> k \in live

\* a key found in the special array, and a key no Insert has stored
C3_Witness ==
    /\ IsFunnel
    /\ \E k, j \in FunnelKeys :
          /\ k \in live /\ Holding(fht.special, k) # {} /\ FunnelContains(fht, k)
          /\ j \notin live /\ ~FunnelContains(fht, j)

(***************************************************************************)
(* C4.  Both tables: Size() <= Capacity() in every state, and Capacity()   *)
(* is floor((1 - delta) * N) for the N and delta = d/4 of the constructor. *)
(***************************************************************************)
C4_SizeWithinCapacity ==
    /\ IsElastic =>
          /\ eht.size <= eht.capacity
          /\ 4 * eht.capacity <= (4 - args[2]) * args[1]
          /\ (4 - args[2]) * args[1] < 4 * (eht.capacity + 1)
    /\ IsFunnel =>
          /\ fht.size <= fht.capacity
          /\ 4 * fht.capacity <= (4 - args[3]) * args[1]
          /\ (4 - args[3]) * args[1] < 4 * (fht.capacity + 1)

\* a funnel table filled up to a capacity below its number of slots
C4_Witness ==
    /\ IsFunnel
    /\ fht.size = fht.capacity
    /\ fht.capacity < args[1]
    /\ FunnelCount(fht, EMPTY) > 0

(***************************************************************************)
(* C5.  Both tables: at Size() == Capacity(), Insert of a key that is not  *)
(* in the table returns an error and leaves every slot and Size() as they  *)
(* were.                                                                   *)
(***************************************************************************)
C5_FullTableRejects ==
    /\ IsElastic /\ eht.size = eht.capacity =>
          \A k \in ElasticKeys :
              ~ElasticContains(eht, k) =>
                  /\ ElasticInsert(eht, k).err # ErrNil
                  /\ ElasticInsert(eht, k).ht = eht
    /\ IsFunnel /\ fht.size = fht.capacity =>
          \A k \in FunnelKeys :
              ~FunnelContains(fht, k) =>
                  /\ FunnelInsert(fht, k).err # ErrNil
                  /\ FunnelInsert(fht, k).ht = fht

\* a full elastic table with free slots left, and an absent key for which Insert fails
C5_Witness ==
    /\ IsElastic
    /\ eht.size = eht.capacity
    /\ ElasticCount(eht, EMPTY) > 0
    /\ \E k \in ElasticKeys :
          /\ ~ElasticContains(eht, k)
          /\ ElasticInsert(eht, k).err = ErrElasticFull

(***************************************************************************)
(* C6.  Elastic table: an Insert(k) issued while Size() < Capacity()       *)
(* returns success; "no empty slot found in final level" is never          *)
(* returned.                                                               *)
(***************************************************************************)
C6_InsertBelowCapacitySucceeds ==
    IsElastic /\ eht.size < eht.capacity =>
        \A k \in ElasticKeys : ElasticInsert(eht, k).err = ErrNil

(***************************************************************************)
(* C7.  Funnel table: an Insert(k) issued while Size() < Capacity()        *)
(* returns success; "special array is full" is never returned.             *)
(***************************************************************************)
C7_FunnelInsertBelowCapacitySucceeds ==
    IsFunnel /\ fht.size < fht.capacity =>
        \A k \in FunnelKeys : FunnelInsert(fht, k).err = ErrNil

(***************************************************************************)
(* C8.  Both tables: Insert(k) of a key that is already present returns    *)
(* success (no error), whatever the current occupancy.                     *)
(***************************************************************************)
C8_DuplicateInsertSucceeds ==
    /\ IsElastic =>
          \A k \in ElasticKeys : ElasticContains(eht, k) => ElasticInsert(eht, k).err = ErrNil
    /\ IsFunnel =>
          \A k \in FunnelKeys : FunnelContains(fht, k) => FunnelInsert(fht, k).err = ErrNil

(***************************************************************************)
(* C8, amended.  Both tables: Insert(k) of a key that is already present   *)
(* changes nothing; it returns success while Size() < Capacity() and the   *)
(* table-full error when Size() == Capacity().                             *)
(***************************************************************************)
C8_DuplicateInsertByOccupancy ==
    /\ IsElastic =>
          \A k \in ElasticKeys :
              ElasticContains(eht, k) =>
                  /\ ElasticInsert(eht, k).ht = eht
                  /\ ElasticInsert(eht, k).err =
                        IF eht.size < eht.capacity THEN ErrNil ELSE ErrElasticFull
    /\ IsFunnel =>
          \A k \in FunnelKeys :
              FunnelContains(fht, k) =>
                  /\ FunnelInsert(fht, k).ht = fht
                  /\ FunnelInsert(fht, k).err =
                        IF fht.size < fht.capacity THEN ErrNil ELSE ErrFunnelFull

\* a full elastic table, and a key it holds for which Insert returns the full error
C8_Witness ==
    /\ IsElastic
    /\ eht.size = eht.capacity
    /\ \E k \in ElasticKeys :
          /\ k \in live
          /\ ElasticContains(eht, k)
          /\ ElasticInsert(eht, k) = [ht |-> eht, err |-> ErrElasticFull]

(***************************************************************************)
(* C9.  Both tables: of two consecutive Insert(k) calls the second leaves  *)
(* Size() and every slot as they were after the first.                     *)
(***************************************************************************)
C9_SecondInsertChangesNothing ==
    /\ IsElastic =>
          \A k \in ElasticKeys :
              ElasticInsert(ElasticInsert(eht, k).ht, k).ht = ElasticInsert(eht, k).ht
    /\ IsFunnel =>
          \A k \in FunnelKeys :
              FunnelInsert(FunnelInsert(fht, k).ht, k).ht = FunnelInsert(fht, k).ht

\* a funnel table in which a first Insert(k) stores a new key below level 0
C9_Witness ==
    /\ IsFunnel
    /\ \E k \in FunnelKeys :
          /\ k \notin live
          /\ FunnelInsert(fht, k).err = ErrNil
          /\ FunnelInsert(fht, k).ht.size = fht.size + 1
          /\ FunnelInsert(fht, k).ht.levels[1] = fht.levels[1]
          /\ FunnelInsert(FunnelInsert(fht, k).ht, k).ht.size = fht.size + 1

(***************************************************************************)
(* C10.  Both tables: Size() equals the number of slots that hold a key    *)
(* (neither EMPTY nor TOMBSTONE) and is never negative; it is 0 after      *)
(* construction and n after n successful Inserts of n distinct keys.       *)
(***************************************************************************)
C10_SizeCountsKeySlots ==
    /\ IsElastic =>
          /\ eht.size >= 0
          /\ eht.size = ElasticKeySlots(eht)
          /\ eht.size = Cardinality(live)
    /\ IsFunnel =>
          /\ fht.size >= 0
          /\ fht.size = FunnelKeySlots(fht)
          /\ fht.size = Cardinality(live)

\* an elastic table after Removes: tombstones are not counted, the live keys are
C10_Witness ==
    /\ IsElastic
    /\ ElasticCount(eht, TOMBSTONE) >= 2
    /\ eht.size = 3
    /\ Cardinality(live) = 3

(***************************************************************************)
(* C11.  Both tables: no key value is stored in more than one slot, over   *)
(* all levels and the final level (Elastic) or the special array (Funnel). *)
(***************************************************************************)
C11_NoKeyStoredTwice ==
    /\ IsElastic => \A k \in ElasticKeys : ElasticCount(eht, k) <= 1
    /\ IsFunnel => \A k \in FunnelKeys : FunnelCount(fht, k) <= 1

\* a table with a tombstone and a key stored below level 0: the key is in one slot,
\* and a further Insert of it adds no copy
C11_Witness ==
    /\ IsElastic
    /\ ElasticCount(eht, TOMBSTONE) >= 1
    /\ \E k \in live :
          /\ ElasticCount(eht, k) = 1
          /\ Holding(eht.levels[1], k) = {}
          /\ ElasticCount(ElasticInsert(eht, k).ht, k) = 1

\* the levels of ht with the slots that hold key turned into tombstones
WithTombstoneFor(ht, key) ==
    [i \in DOMAIN ht.levels |->
        [p \in DOMAIN ht.levels[i] |->
            IF ht.levels[i][p] = key THEN TOMBSTONE ELSE ht.levels[i][p]]]

(***************************************************************************)
(* C12.  Elastic table: Remove(k) returns true exactly when Contains(k)    *)
(* held immediately before.  On true the slot that held k holds TOMBSTONE  *)
(* and Size() is one lower, nothing else changed; on false no slot and no  *)
(* counter changed.                                                        *)
(***************************************************************************)
C12_RemoveContract ==
    IsElastic =>
        \A k \in ElasticKeys :
            /\ ElasticRemove(eht, k).found = ElasticContains(eht, k)
            /\ ElasticRemove(eht, k).found =>
                  /\ ElasticCount(eht, k) = 1
                  /\ ElasticRemove(eht, k).ht =
                        [eht EXCEPT !.levels = WithTombstoneFor(eht, k), !.size = @ - 1]
            /\ ~ElasticRemove(eht, k).found => ElasticRemove(eht, k).ht = eht

\* after an earlier Remove left a tombstone: a key below level 0 that Remove finds
\* and turns into a tombstone, and an absent key for which Remove returns false
C12_Witness ==
    /\ IsElastic
    /\ ElasticCount(eht, TOMBSTONE) >= 1
    /\ \E k \in live, j \in ElasticKeys \ live :
          /\ Holding(eht.levels[1], k) = {}
          /\ ElasticRemove(eht, k).found
          /\ ElasticRemove(eht, k).ht.size = eht.size - 1
          /\ ElasticCount(ElasticRemove(eht, k).ht, TOMBSTONE) = ElasticCount(eht, TOMBSTONE) + 1
          /\ ~ElasticRemove(eht, j).found

(***************************************************************************)
(* C13.  Elastic table, key k present: after Remove(k) Contains(k) is      *)
(* false and Size() is one lower; a following Insert(k) succeeds and makes *)
(* Contains(k) true again and Size() equal to its value before the Remove. *)
(***************************************************************************)
C13_RemoveThenInsertRestores ==
    IsElastic =>
        \A k \in ElasticKeys :
            ElasticContains(eht, k) =>
                LET removed == ElasticRemove(eht, k).ht
                    again == ElasticInsert(removed, k)
                IN  /\ ~ElasticContains(removed, k)
                    /\ removed.size = eht.size - 1
                    /\ again.err = ErrNil
                    /\ ElasticContains(again.ht, k)
                    /\ again.ht.size = eht.size

\* a full table and a key of it below level 0: removed and inserted again, the key
\* is back and the table is full again
C13_Witness ==
    /\ IsElastic
    /\ eht.size = eht.capacity
    /\ \E k \in live :
          /\ Holding(eht.levels[1], k) = {}
          /\ ElasticRemove(eht, k).found
          /\ ElasticInsert(ElasticRemove(eht, k).ht, k).err = ErrNil
          /\ ElasticInsert(ElasticRemove(eht, k).ht, k).ht.size = eht.capacity
          /\ ElasticContains(ElasticInsert(ElasticRemove(eht, k).ht, k).ht, k)

\* one slot over one step: untouched, EMPTY or TOMBSTONE taken by a key that is live
\* afterwards (Insert), or a key turned into a tombstone and no longer live (Remove)
SlotStep(old, new) ==
    \/ new = old
    \/ old \in {EMPTY, TOMBSTONE} /\ new >= 0 /\ new \notin live /\ new \in live'
    \/ old >= 0 /\ new = TOMBSTONE /\ old \in live /\ old \notin live'

\* every slot of a slice over one step; slices are never reallocated
SlotsStep(old, new) ==
    /\ DOMAIN new = DOMAIN old
    /\ \A p \in DOMAIN old : SlotStep(old[p], new[p])

(***************************************************************************)
(* C14.  Keys >= 0: every step changes a slot only EMPTY -> key or         *)
(* TOMBSTONE -> key (Insert) or key -> TOMBSTONE (Remove).  A written slot *)
(* never becomes EMPTY again, EMPTY never becomes TOMBSTONE directly, and  *)
(* a key is never overwritten by another key.                              *)
(***************************************************************************)
C14_SlotTransitions ==
    [][/\ DOMAIN eht'.levels = DOMAIN eht.levels
       /\ \A i \in DOMAIN eht.levels : SlotsStep(eht.levels[i], eht'.levels[i])
       /\ DOMAIN fht'.levels = DOMAIN fht.levels
       /\ \A i \in DOMAIN fht.levels : SlotsStep(fht.levels[i].slots, fht'.levels[i].slots)
       /\ SlotsStep(fht.special, fht'.special)]_vars

\* a Remove has left a tombstone, a key sits in another slot, and Insert of an absent
\* key is about to take the tombstone
C14_Witness ==
    /\ IsElastic
    /\ ElasticCount(eht, TOMBSTONE) >= 1
    /\ eht.size >= 1
    /\ \E k \in ElasticKeys \ live :
          /\ ElasticInsert(eht, k).err = ErrNil
          /\ ElasticCount(ElasticInsert(eht, k).ht, TOMBSTONE) = ElasticCount(eht, TOMBSTONE) - 1

(***************************************************************************)
(* C15.  Construction with delta outside [0,1) (either table) or with a    *)
(* bucket size below 1 (Funnel) fails with the configuration error before  *)
(* any level is allocated, and no table is returned.                       *)
(***************************************************************************)
C15_InvalidArgumentsRejected ==
    /\ IsElastic /\ Constructed /\ (args[2] < 0 \/ args[2] >= 4) =>
          /\ panic = PanicDelta
          /\ eht = NoElastic
          /\ ~NewElasticCall(args[1], args[2]).levelsMade
    /\ IsFunnel /\ Constructed /\ (args[3] < 0 \/ args[3] >= 4 \/ args[2] < 1) =>
          /\ panic = PanicDelta
          /\ fht = NoFunnel
          /\ ~NewFunnelCall(args[1], args[2], args[3]).levelsMade

(***************************************************************************)
(* C16.  The funnel table offers Remove(k): it follows the traversal of    *)
(* Contains, turns the slot holding k into TOMBSTONE, lowers Size() by 1   *)
(* and returns true if k was present, and returns false and changes        *)
(* nothing otherwise.                                                      *)
(***************************************************************************)
C16_FunnelOffersRemove ==
    IsFunnel => "Remove" \in FunnelMethods

(***************************************************************************)
(* C17.  An elastic table of (N, delta) and a funnel table of (N, b,       *)
(* delta), given the same Insert/Remove/Contains/Size calls with keys >= 0 *)
(* and occupancy below capacity, return the same results: the same Insert  *)
(* outcome, the same Contains value, the same Size().                      *)
(***************************************************************************)
C17_SameResults ==
    IsPair =>
        /\ eht.size = fht.size
        /\ \A k \in ElasticKeys :
              /\ ElasticContains(eht, k) = FunnelContains(fht, k)
              /\ eht.size < eht.capacity /\ fht.size < fht.capacity =>
                    (ElasticInsert(eht, k).err = ErrNil) = (FunnelInsert(fht, k).err = ErrNil)

\* no call is under way
Quiescent == \A g \in Goroutines : procs[g].pc = "idle"

\* a call made alone on table t: the table after it and the value it returns
CallAlone(t, c) ==
    IF IsElastic
    THEN IF c.op = "Insert"
         THEN [ht |-> ElasticInsert(t, c.key).ht, ret |-> ElasticInsert(t, c.key).err]
         ELSE IF c.op = "Remove"
         THEN [ht |-> ElasticRemove(t, c.key).ht, ret |-> ElasticRemove(t, c.key).found]
         ELSE [ht |-> t, ret |-> ElasticContains(t, c.key)]
    ELSE IF c.op = "Insert"
         THEN [ht |-> FunnelInsert(t, c.key).ht, ret |-> FunnelInsert(t, c.key).err]
         ELSE [ht |-> t, ret |-> FunnelContains(t, c.key)]

\* the tables that the calls s1 and s2, made one at a time from table t in some
\* order that keeps the order of each goroutine, leave with the values returned
RECURSIVE SequentialFinals(_, _, _)
SequentialFinals(t, s1, s2) ==
    IF s1 = << >> /\ s2 = << >> THEN {t}
    ELSE (IF s1 # << >> /\ CallAlone(t, Head(s1)).ret = Head(s1).ret
          THEN SequentialFinals(CallAlone(t, Head(s1)).ht, Tail(s1), s2) ELSE {})
         \cup
         (IF s2 # << >> /\ CallAlone(t, Head(s2)).ret = Head(s2).ret
          THEN SequentialFinals(CallAlone(t, Head(s2)).ht, s1, Tail(s2)) ELSE {})

(***************************************************************************)
(* C18.  Both tables are thread-safe: for every interleaving of concurrent *)
(* Insert/Remove/Contains calls made without a lock, the values returned,  *)
(* the final slots and Size() are those of some sequential order of the    *)
(* same calls (no key lost, no key twice, Size() the number of keys).      *)
(***************************************************************************)
C18_SomeSequentialOrder ==
    procs # NoProcs /\ Quiescent =>
        /\ IsElastic =>
              eht \in SequentialFinals(NewElasticHashTable(args[1], args[2]),
                                       procs[1].hist, procs[2].hist)
        /\ IsFunnel =>
              fht \in SequentialFinals(NewFunnelHashTable(args[1], args[2], args[3]),
                                       procs[1].hist, procs[2].hist)

\* the calls made so far, completed or under way
CallsOf(g) ==
    { [op |-> procs[g].hist[n].op, key |-> procs[g].hist[n].key] : n \in DOMAIN procs[g].hist }
    \cup (IF procs[g].pc = "idle" THEN {} ELSE { [op |-> procs[g].op, key |-> procs[g].key] })

\* every call so far is an Insert, and no key was passed twice
InsertsOfDistinctKeys ==
    /\ \A g \in Goroutines : \A c \in CallsOf(g) : c.op = "Insert"
    /\ \A g \in Goroutines :
          Cardinality(CallsOf(g)) =
              Len(procs[g].hist) + (IF procs[g].pc = "idle" THEN 0 ELSE 1)

(***************************************************************************)
(* C19.  Elastic table: Size() <= Capacity() in every state that           *)
(* concurrent Insert calls of distinct keys reach, however the capacity    *)
(* test and the increment of two callers interleave.                       *)
(***************************************************************************)
C19_ConcurrentSizeWithinCapacity ==
    procs # NoProcs /\ IsElastic /\ InsertsOfDistinctKeys => eht.size <= eht.capacity

\* the Inserts completed, all with success
SuccessfulInserts ==
    SumTo([g \in 0..1 |-> Len(procs[g + 1].hist)], 1)

AllInsertsSucceeded ==
    \A g \in Goroutines : \A n \in DOMAIN procs[g].hist : procs[g].hist[n].ret = ErrNil

(***************************************************************************)
(* C20.  Both tables update the occupancy counter atomically: when         *)
(* concurrent Inserts complete with success, having written distinct keys  *)
(* into distinct slots, Size() has grown by exactly their number, for the  *)
(* funnel table as for the elastic table.                                  *)
(***************************************************************************)
C20_NoLostUpdate ==
    procs # NoProcs /\ Quiescent /\ InsertsOfDistinctKeys /\ AllInsertsSucceeded =>
        /\ IsElastic /\ ElasticKeySlots(eht) = SuccessfulInserts =>
              eht.size = SuccessfulInserts
        /\ IsFunnel /\ FunnelKeySlots(fht) = SuccessfulInserts =>
              fht.size = SuccessfulInserts

\* the call goroutine g completes in this step, or none
Completes(g) ==
    IF Len(procs'[g].hist) = Len(procs[g].hist) + 1
    THEN {procs'[g].hist[Len(procs'[g].hist)]} ELSE {}

\* no goroutine besides g is inside a call
Alone(g) == \A h \in Goroutines \ {g} : procs[h].pc = "idle"

(***************************************************************************)
(* C21.  Either table: Contains writes no slot and leaves the occupancy    *)
(* counter alone, and a Contains call that no Insert or Remove runs        *)
(* alongside returns what it returns when run alone, however many          *)
(* Contains calls run with it.                                             *)
(***************************************************************************)
C21_ContainsReadsOnly ==
    [][\A g \in Goroutines : \A c \in Completes(g) :
          c.op = "Contains" =>
              /\ eht' = eht
              /\ fht' = fht
              /\ Alone(g) =>
                    c.ret = CallAlone(IF IsElastic THEN eht ELSE fht, c).ret]_vars

\* both goroutines have completed a Contains as their second call, one finding the
\* one key stored and one not finding its key
C21_Witness ==
    /\ procs # NoProcs /\ IsElastic /\ Quiescent
    /\ \A g \in Goroutines :
          /\ Len(procs[g].hist) = 2
          /\ procs[g].hist[2].op = "Contains"
    /\ procs[1].hist[2].ret = TRUE
    /\ procs[2].hist[2].ret = FALSE
    /\ ElasticContains(eht, procs[1].hist[2].key)
    /\ eht.size = 1

\* (L-1)*R slots of the upper levels and the m slots of the last level
ElasticReadBound(ht) == (ht.L - 1) * ht.R + Len(ht.levels[ht.L])

\* the number of slots Insert of the elastic table reads: those of its call of
\* Contains, then those of its own probe loops
ElasticInsertReads(ht, key) ==
    IF ht.size >= ht.capacity THEN 0
    ELSE Len(ContainsVisits(ht, key, 0, 0, {}, 0))
         + (IF ElasticContains(ht, key) THEN 0 ELSE Len(InsertVisits(ht, key, 0, 0, {}, 0)))

\* what Contains and Remove of the elastic table and both calls of the funnel table read
OtherReadsBounded ==
    /\ IsElastic =>
          \A k \in LowKeys :
              /\ Len(ContainsVisits(eht, k, 0, 0, {}, 0)) <= ElasticReadBound(eht)
              /\ Len(RemoveVisits(eht, k, 0, 0, {}, 0)) <= ElasticReadBound(eht)
    /\ IsFunnel =>
          \A k \in FunnelKeys :
              /\ FunnelContainsReads(fht, k, 0) <= Len(fht.levels) * fht.b + Len(fht.special)
              /\ (IF fht.size >= fht.capacity THEN 0 ELSE FunnelInsertReads(fht, k, 0))
                    <= 2 * Len(fht.levels) * fht.b + Len(fht.special)

(***************************************************************************)
(* C22.  Every Insert, Contains and Remove call ends after reading a       *)
(* bounded number of slots: at most (L-1)*R + m for the elastic table, at  *)
(* most B*b bucket slots (2*B*b for Insert) plus the length of the special *)
(* array for the funnel table.                                             *)
(***************************************************************************)
C22_ReadsBounded ==
    /\ OtherReadsBounded
    /\ IsElastic => \A k \in LowKeys : ElasticInsertReads(eht, k) <= ElasticReadBound(eht)

(***************************************************************************)
(* C22, amended.  As C22, with Insert of the elastic table reading at most *)
(* 2*((L-1)*R + m) slots: those of the Contains it calls and those of its  *)
(* own probe loops.                                                        *)
(***************************************************************************)
C22_ReadsBoundedTwiceForInsert ==
    /\ OtherReadsBounded
    /\ IsElastic => \A k \in LowKeys : ElasticInsertReads(eht, k) <= 2 * ElasticReadBound(eht)

\* an Insert of the elastic table that reads more than (L-1)*R + m slots
C22_Witness ==
    /\ IsElastic
    /\ \E k \in LowKeys \ live :
          /\ ElasticInsertReads(eht, k) > ElasticReadBound(eht)
          /\ ElasticInsert(eht, k).err = ErrNil

(***************************************************************************)
(* C23.  Elastic table: when Insert(k) of a new key fails because Size()   *)
(* equals Capacity(), a Remove of any present key followed by Insert(k)    *)
(* succeeds, and Contains(k) is then true.                                 *)
(***************************************************************************)
C23_RemoveMakesRoom ==
    IsElastic /\ eht.size = eht.capacity =>
        \A k \in FullKeys \ live :
            ElasticInsert(eht, k).err = ErrElasticFull =>
                \A j \in live :
                    LET removed == ElasticRemove(eht, j)
                        inserted == ElasticInsert(removed.ht, k)
                    IN  removed.found =>
                            /\ inserted.err = ErrNil
                            /\ ElasticContains(inserted.ht, k)

\* the table with every slot held by a key other than `key`
HeldByOthers(ht, key) ==
    [ht EXCEPT !.levels = [i \in DOMAIN ht.levels |->
                              [p \in DOMAIN ht.levels[i] |-> key + 1]]]

\* the slots the probe loops of Insert go through for key, in order, when none is free
ProbeOrder(ht, key) == InsertVisits(HeldByOthers(ht, key), key, 0, 0, {}, 0)

\* the value of the n-th slot of a sequence of slots <<level, pos>>
SlotOf(ht, order, n) == Slot(ht, order[n][1], order[n][2])

\* the places of a sequence of slots whose slot holds key
StoredAt(ht, order, key) == {n \in 1..Len(order) : SlotOf(ht, order, n) = key}

(***************************************************************************)
(* C24.  Elastic table: for every key stored at some attempt of a level    *)
(* (or some offset of the last level), every distinct probe position of    *)
(* the key in the earlier levels, at the earlier attempts of that level    *)
(* and at the earlier offsets of the last level holds a key or TOMBSTONE,  *)
(* never EMPTY.                                                            *)
(***************************************************************************)
C24_NoEmptyBeforeKey ==
    IsElastic =>
        \A k \in live :
            LET order == ProbeOrder(eht, k)
                at == StoredAt(eht, order, k)
            IN  /\ at # {}
                /\ \A n \in at : \A e \in 1..(n - 1) : SlotOf(eht, order, e) # EMPTY

\* a key stored in the last level with a tombstone at an earlier position of its
\* probe order
C24_Witness ==
    /\ IsElastic
    /\ \E k \in live :
          LET order == ProbeOrder(eht, k)
          IN  \E n \in StoredAt(eht, order, k) :
                  /\ order[n][1] = eht.L - 1
                  /\ \E e \in 1..(n - 1) : SlotOf(eht, order, e) = TOMBSTONE

\* the places of a sequence of slots whose slot is EMPTY or TOMBSTONE
FreeAt(ht, order) == {n \in 1..Len(order) : Free(SlotOf(ht, order, n))}

\* the least number of a nonempty set of numbers
Least(S) == CHOOSE n \in S : \A o \in S : n <= o

(***************************************************************************)
(* C25.  Elastic table: Insert(k) of an absent key below capacity writes k *)
(* into the first slot that is EMPTY or TOMBSTONE in the order level 0 to  *)
(* L-2, attempt 0 to R-1 (positions already probed in the level skipped),  *)
(* then the last level linearly with wraparound from hash(k, L-1, 0, m);   *)
(* it never writes into a level it has left, and it writes exactly one     *)
(* slot.                                                                   *)
(***************************************************************************)
C25_WritesFirstFreeSlot ==
    IsElastic /\ eht.size < eht.capacity =>
        \A k \in ElasticKeys \ live :
            LET order == ProbeOrder(eht, k)
                free == FreeAt(eht, order)
            IN  /\ free # {}
                /\ ElasticInsert(eht, k).ht =
                      [SetSlot(eht, order[Least(free)][1], order[Least(free)][2], k)
                          EXCEPT !.size = @ + 1]

\* a slot that holds a key in one of two states of the table, the key being held
\* in both, has the same value in the other
SameKeys(before, after, held) ==
    \A p \in DOMAIN before :
        /\ before[p] \in held => after[p] = before[p]
        /\ after[p] \in held => before[p] = after[p]

(***************************************************************************)
(* C26.  No reordering, in either table: from the Insert that placed a key *)
(* to the Remove of that key the key stays in the same slot; Insert and    *)
(* Remove of a key j change neither the slot that holds another key k nor  *)
(* the value of Contains(k).                                               *)
(***************************************************************************)
C26_NoReordering ==
    [][/\ IsElastic /\ eht' # eht =>
             /\ \A i \in DOMAIN eht.levels :
                    SameKeys(eht.levels[i], eht'.levels[i], live \cap live')
             /\ \A k \in ElasticKeys :
                    (k \in live <=> k \in live') =>
                        ElasticContains(eht', k) = ElasticContains(eht, k)
       /\ IsFunnel /\ fht' # fht =>
             /\ \A i \in DOMAIN fht.levels :
                    SameKeys(fht.levels[i].slots, fht'.levels[i].slots, live \cap live')
             /\ SameKeys(fht.special, fht'.special, live \cap live')
             /\ \A k \in FunnelKeys :
                    (k \in live <=> k \in live') =>
                        FunnelContains(fht', k) = FunnelContains(fht, k)]_vars

\* two keys are held, each in one slot, after another key was removed
C26_Witness ==
    /\ IsElastic
    /\ Cardinality(live) >= 2
    /\ ElasticCount(eht, TOMBSTONE) >= 1
    /\ \A k \in live : ElasticCount(eht, k) = 1

\* the first place after n of a sequence of slots that is in a later level, or
\* the place after the last
NextLevelAt(order, n) ==
    Least({m \in (n + 1)..(Len(order) + 1) :
              m = Len(order) + 1 \/ order[m][1] > order[n][1]})

\* the slots of a probe order visited from place n on by a lookup that ends at
\* a match, goes to the next level at an EMPTY slot and ends at an EMPTY slot of
\* the last level
RECURSIVE LookupAlong(_, _, _, _)
LookupAlong(ht, key, order, n) ==
    IF n > Len(order) THEN << >>
    ELSE IF SlotOf(ht, order, n) = key THEN << order[n] >>
    ELSE IF SlotOf(ht, order, n) = EMPTY
    THEN << order[n] >>
             \o (IF order[n][1] = ht.L - 1 THEN << >>
                 ELSE LookupAlong(ht, key, order, NextLevelAt(order, n)))
    ELSE << order[n] >> \o LookupAlong(ht, key, order, n + 1)

(***************************************************************************)
(* C27.  Elastic table: Contains (four unrolled attempts, then a loop) and *)
(* Remove visit, for every key and every state of the table, the slots of  *)
(* the probe order of Insert's loop (same levels, same attempts, repeated  *)
(* positions skipped), leaving a level only at a match or an EMPTY slot.   *)
(***************************************************************************)
C27_SameProbeOrder ==
    IsElastic =>
        \A k \in LowKeys :
            LET along == LookupAlong(eht, k, ProbeOrder(eht, k), 1)
            IN  /\ ContainsVisits(eht, k, 0, 0, {}, 0) = along
                /\ RemoveVisits(eht, k, 0, 0, {}, 0) = along

\* a lookup that passes a TOMBSTONE and ends at the key in a later level, for a key
\* with fewer distinct positions than attempts in level 0, and a lookup of an
\* absent key that passes a TOMBSTONE and leaves that level at an EMPTY slot
C27_Witness ==
    /\ IsElastic
    /\ \E k \in live :
          LET visits == ContainsVisits(eht, k, 0, 0, {}, 0)
              order == ProbeOrder(eht, k)
          IN  /\ SlotOf(eht, visits, 1) = TOMBSTONE
              /\ SlotOf(eht, visits, Len(visits)) = k
              /\ visits[Len(visits)][1] > 0
              /\ Cardinality({n \in 1..Len(order) : order[n][1] = 0}) < eht.R
    /\ \E k \in LowKeys \ live :
          LET visits == RemoveVisits(eht, k, 0, 0, {}, 0)
          IN  /\ SlotOf(eht, visits, 1) = TOMBSTONE
              /\ SlotOf(eht, visits, 2) = EMPTY
              /\ visits[2][1] = 0
              /\ visits[3][1] = 1

(***************************************************************************)
(* C28.  For every region length m that is a power of two, m = 1 included, *)
(* the bitmask path ((start+offset) & (m-1), and hash & mask for the       *)
(* buckets of the funnel table) visits the same slot indices in the same   *)
(* order as the modulo path ((start+offset) % m, hash % numBuckets).       *)
(***************************************************************************)
C28_MaskIsModulo ==
    variant \in {"last level", "special array", "bucket"} =>
        /\ IsPowerOfTwo(args[1])
        /\ procs.masked = procs.modulo

\* a probe loop that went through a region of more than one slot, from a start
\* other than 0 and around the end of the region
C28_Witness ==
    /\ variant \in {"last level", "special array"}
    /\ procs.offset = args[1]
    /\ args[1] > 1
    /\ procs.masked[1] > 0
    /\ procs.masked[args[1]] = procs.masked[1] - 1

\* the number of slots of levels 0..i-1 of the elastic table
SlotsBelow(ht, i) == SumTo([j \in 0..(i - 1) |-> Len(ht.levels[j + 1])], i - 1)

(***************************************************************************)
(* C29.  Elastic table: for every positive N, each of the levels 0..L-2    *)
(* (L = 4, R = 4) gets min(R, what remains of N) slots, so that together   *)
(* they never exceed N, and the last level gets the remaining slots, at    *)
(* least 1.                                                                *)
(***************************************************************************)
C29_LevelAllocation ==
    IsElastic /\ eht # NoElastic =>
        LET N == args[1]
        IN  /\ eht.L = 4
            /\ eht.R = 4
            /\ Len(eht.levels) = eht.L
            /\ \A i \in 0..(eht.L - 2) :
                  LET remaining == N - SlotsBelow(eht, i)
                  IN  Len(eht.levels[i + 1]) = IF eht.R < remaining THEN eht.R ELSE remaining
            /\ SlotsBelow(eht, eht.L - 1) <= N
            /\ LET remaining == N - SlotsBelow(eht, eht.L - 1)
               IN  Len(eht.levels[eht.L]) = IF remaining < 1 THEN 1 ELSE remaining

\* a table built with a level cut below R slots and a last level of the one slot
\* it is given when nothing remains
C29_Witness ==
    /\ IsElastic
    /\ eht # NoElastic
    /\ \E i \in 0..(eht.L - 2) : Len(eht.levels[i + 1]) \in 1..(eht.R - 1)
    /\ SlotsBelow(eht, eht.L - 1) = args[1]
    /\ Len(eht.levels[eht.L]) = 1

(***************************************************************************)
(* C30.  Elastic table: for every positive N, those below (L-1)*R = 12     *)
(* included, every level has at least one slot, so that Insert, Contains   *)
(* and Remove never compute a slot hash with modulus 0 and always return a *)
(* result instead of failing with a division by zero.                      *)
(***************************************************************************)
C30_NoDivisionByZero == IsElastic => panic # PanicDivide

\* the number of slots of the funnel table, levels and special array
FunnelTotalSlots(ht) ==
    SumTo([i \in 0..(Len(ht.levels) - 1) |-> Len(ht.levels[i + 1].slots)],
          Len(ht.levels) - 1)
    + Len(ht.special)

(***************************************************************************)
(* C31.  Funnel table: for every positive N, b >= 1 and delta in [0,1),    *)
(* each level holds a whole number of buckets, at least one, of exactly b  *)
(* slots each, the special array has at least 1 slot, and the levels and   *)
(* the special array together have at least Capacity() slots.              *)
(***************************************************************************)
C31_FunnelAllocation ==
    IsFunnel /\ fht # NoFunnel /\ args[1] >= 1 /\ args[2] >= 1 =>
        /\ fht.b = args[2]
        /\ \A i \in DOMAIN fht.levels :
              /\ fht.levels[i].numBuckets >= 1
              /\ Len(fht.levels[i].slots) = fht.levels[i].numBuckets * fht.b
        /\ Len(fht.special) >= 1
        /\ FunnelTotalSlots(fht) >= fht.capacity

\* a table of buckets of two slots with a level raised to its one bucket and a
\* special array of the one slot it is given when nothing remains
C31_Witness ==
    /\ IsFunnel
    /\ fht # NoFunnel
    /\ args[2] = 2
    /\ \E i \in DOMAIN fht.levels :
          /\ fht.levels[i].numBuckets = 1
          /\ (FunnelFractions(Len(fht.levels))[i][1] * args[1])
                 \div FunnelFractions(Len(fht.levels))[i][2] < fht.b
    /\ \E i \in DOMAIN fht.levels : fht.levels[i].numBuckets > 1
    /\ Len(fht.special) = 1
    /\ FunnelTotalSlots(fht) > args[1]

\* the levels at which the bucket of key has an EMPTY slot, the slots of that
\* bucket that are EMPTY, and the offsets of the special array, counted from the
\* start of key, whose slot is EMPTY
LevelsWithRoom(ht, key) ==
    {i \in 0..(Len(ht.levels) - 1) : \E j \in 0..(ht.b - 1) : BucketSlot(ht, key, i, j) = EMPTY}
RoomInBucket(ht, key, i) == {j \in 0..(ht.b - 1) : BucketSlot(ht, key, i, j) = EMPTY}
RoomInSpecial(ht, key) ==
    {o \in 0..(Len(ht.special) - 1) : ht.special[SpecialPos(ht, key, o) + 1] = EMPTY}

\* the table with key in slot j of its bucket of level i, counted in
InBucket(ht, key, i, j) ==
    [ht EXCEPT !.levels[i + 1].slots[FunnelHashFunc(ht, key, i) * ht.b + j + 1] = key,
               !.size = @ + 1]

\* the table with key in the special array at offset o from its start, counted in
InSpecial(ht, key, o) ==
    [ht EXCEPT !.special[SpecialPos(ht, key, o) + 1] = key, !.size = @ + 1]

(***************************************************************************)
(* C32.  Funnel table: Insert(k) of an absent key below capacity writes k  *)
(* into the first EMPTY slot of k's bucket at the lowest level whose       *)
(* bucket of k has an EMPTY slot, and into the special array (the first    *)
(* free slot in linear order with wraparound from its start) only when the *)
(* bucket of k is full at every level; exactly one slot is written.        *)
(***************************************************************************)
C32_GreedyInsert ==
    IsFunnel /\ fht.size < fht.capacity =>
        \A k \in FunnelKeys \ live :
            LET levels == LevelsWithRoom(fht, k)
                offsets == RoomInSpecial(fht, k)
            IN  IF levels # {}
                THEN FunnelInsert(fht, k).ht =
                         InBucket(fht, k, Least(levels),
                                  Least(RoomInBucket(fht, k, Least(levels))))
                ELSE /\ offsets # {}
                     /\ FunnelInsert(fht, k).ht = InSpecial(fht, k, Least(offsets))

\* the levels of the funnel table that hold key, the special array being level B
FunnelLevelsOf(ht, key) == {s[1] : s \in {t \in FunnelSlotsOf(ht) : FunnelSlot(ht, t) = key}}

\* the offsets from the start of key at which the special array holds key
SpecialOffsetsOf(ht, key) ==
    {o \in 0..(Len(ht.special) - 1) : ht.special[SpecialPos(ht, key, o) + 1] = key}

(***************************************************************************)
(* C33.  Funnel table, in every reachable state: inside every bucket no    *)
(* EMPTY slot precedes an occupied slot; a key stored at level i has its   *)
(* bucket full at every level below i; a key stored in the special array   *)
(* has no EMPTY slot between its start offset and its position.            *)
(***************************************************************************)
C33_NoEmptyBeforeStored ==
    IsFunnel =>
        /\ \A i \in DOMAIN fht.levels :
              \A q \in 0..(fht.levels[i].numBuckets - 1) :
                  \A j \in 1..fht.b : \A n \in 1..(j - 1) :
                      fht.levels[i].slots[q * fht.b + n] = EMPTY
                          => fht.levels[i].slots[q * fht.b + j] = EMPTY
        /\ \A k \in live :
              /\ FunnelLevelsOf(fht, k) # {}
              /\ \A i \in FunnelLevelsOf(fht, k) :
                    \A below \in 0..(i - 1) : RoomInBucket(fht, k, below) = {}
              /\ \A o \in SpecialOffsetsOf(fht, k) :
                    \A before \in 0..(o - 1) :
                        fht.special[SpecialPos(fht, k, before) + 1] # EMPTY

\* a key is stored below level 0 and a key is stored in the special array behind
\* another key
C33_Witness ==
    /\ IsFunnel
    /\ \E k \in live : \E i \in FunnelLevelsOf(fht, k) : i \in 1..(Len(fht.levels) - 1)
    /\ \E k \in live : \E o \in SpecialOffsetsOf(fht, k) : o > 0

\* C34: the slot hash of either table returns an index i with 0 <= i < m for
\* every key, level and attempt and every modulus m >= 1 (m the length of the
\* level for the elastic table, the bucket count of the level for the funnel
\* table), so the slot it names lies inside the level or the bucket array.
C34_HashInRange ==
    procs # NoProcs =>
        /\ IsElastic => procs[1] \in 0..(args[4] - 1)
        /\ IsFunnel => procs[1] \in 0..(args[3] - 1)

C34_Witness ==
    /\ IsElastic
    /\ procs # NoProcs
    /\ args[1] = 2147483647
    /\ args[4] > 1
    /\ procs[1] = args[4] - 1

\* the pairs of keys that hashFunc sends to the same bucket of level i
SharingBucket(ht, i) ==
    { p \in FunnelKeys \X FunnelKeys :
        p[1] < p[2] /\ FunnelHashFunc(ht, p[1], i) = FunnelHashFunc(ht, p[2], i) }

\* level j has more than one bucket and its bucket count is equal to or divides
\* the bucket count of level i
DividingLevels(ht) ==
    { q \in (0..(Len(ht.levels) - 1)) \X (0..(Len(ht.levels) - 1)) :
        /\ q[1] # q[2]
        /\ ht.levels[q[2] + 1].numBuckets > 1
        /\ ht.levels[q[1] + 1].numBuckets % ht.levels[q[2] + 1].numBuckets = 0 }

\* C35: the funnel slot hash decorrelates the levels: when two stored keys share
\* a bucket at level i and the bucket count of another level j is equal to or
\* divides that of level i, sharing at level i does not force sharing at level
\* j, i.e. some pair of keys that shares a bucket at level i is sent to
\* different buckets at level j.
C35_LevelsDecorrelated ==
    IsFunnel =>
        \A q \in DividingLevels(fht) :
            (\E p \in SharingBucket(fht, q[1]) : p[1] \in live /\ p[2] \in live)
                => \E p \in SharingBucket(fht, q[1]) :
                       FunnelHashFunc(fht, p[1], q[2]) # FunnelHashFunc(fht, p[2], q[2])

C37_FailedInsertWritesNothing ==
    /\ IsElastic /\ panic = NoPanic =>
           \A k \in ElasticKeys :
               LET r == ElasticInsert(eht, k)
               IN  r.err # ErrNil => r.ht = eht
    /\ IsFunnel =>
           \A k \in FunnelKeys :
               LET r == FunnelInsert(fht, k)
               IN  r.err # ErrNil => r.ht = fht

C37_Witness ==
    /\ IsElastic
    /\ eht.size < eht.capacity
    /\ \E k \in ElasticKeys : ElasticInsert(eht, k).err = ErrNoEmptySlot

\* the calls Remove(k) that have returned true
RemovesOf(k) ==
    { c \in Goroutines \X (1..MaxCalls) :
        /\ c[2] <= Len(procs[c[1]].hist)
        /\ procs[c[1]].hist[c[2]].key = k
        /\ procs[c[1]].hist[c[2]].ret }

\* C38: elastic table, two goroutines calling Remove(k) for the same present
\* key k without a lock: exactly one of the calls returns true, Size() goes
\* down by exactly 1 for the key, and Size() is never below the number of
\* stored keys nor below 0.
C38_OneRemoveReturnsTrue ==
    IsElastic =>
        /\ eht.size >= 0
        /\ eht.size >= ElasticKeySlots(eht)
        /\ \A k \in live : Cardinality(RemovesOf(k)) <= 1
        /\ Quiescent =>
               eht.size = Cardinality(live) - Cardinality({k \in live : RemovesOf(k) # {}})
====
